---- MODULE Spec2Model ----
(***************************************************************************)
(* NCPDP claim codec (brthode/ncpdp_parser): the fixed-width transaction   *)
(* header, the delimited segments, the claim aggregate and the Overpunch   *)
(* signed-decimal codec.                                                   *)
(*                                                                         *)
(* A Python str is a sequence of one-character strings.  The framing       *)
(* bytes chr(28), chr(29), chr(30) are the characters "FS", "GS", "RS".    *)
(* A Python value is a record [t, v]: t is its kind ("str", "int", "none", *)
(* "header", "claim", "err", ...) and v its content.                       *)
(***************************************************************************)
EXTENDS Integers, Sequences, FiniteSets, TLC

VARIABLES pc, x, y, z
vars == <<pc, x, y, z>>

\* ------------------------------------------------------------------ bounds
MaxOverpunchLen == 3
MaxOverpunchInt == 110

\* ------------------------------------------------------- module constants
\* HEADER_LENGTH of parsed.py, the other header width in the repository
HEADER_LENGTH_31 == 31
NCPDP_HEADER_LENGTH == 56
FIELD_SEPARATOR == "FS"
GROUP_SEPARATOR == "GS"
SEGMENT_SEPARATOR == "RS"

\* ---------------------------------------------------------- Python values
Unset == [t |-> "unset", v |-> <<>>]
PyNone == [t |-> "none", v |-> <<>>]
PyStr(s) == [t |-> "str", v |-> s]
PyInt(n) == [t |-> "int", v |-> n]
Raise(kind) == [t |-> "err", v |-> {kind}]

\* ------------------------------------------------------ string primitives
DigitChars == <<"0", "1", "2", "3", "4", "5", "6", "7", "8", "9">>
Digits == {DigitChars[i] : i \in 1..10}
DigitVal(c) == (CHOOSE i \in 1..10 : DigitChars[i] = c) - 1

LowerChars == <<"a", "b", "c", "d", "e", "f", "g", "h", "i", "j", "k", "l", "m",
                "n", "o", "p", "q", "r", "s", "t", "u", "v", "w", "x", "y", "z">>
UpperChars == <<"A", "B", "C", "D", "E", "F", "G", "H", "I", "J", "K", "L", "M",
                "N", "O", "P", "Q", "R", "S", "T", "U", "V", "W", "X", "Y", "Z">>

\* str.upper() on one character
Upper(c) ==
  IF \E i \in 1..26 : LowerChars[i] = c
    THEN UpperChars[CHOOSE i \in 1..26 : LowerChars[i] = c]
    ELSE c

\* the characters str.strip() and int() treat as whitespace: the space and
\* tab, and the separators chr(28)..chr(30), which str.isspace() accepts
Whitespace == {" ", "\t", FIELD_SEPARATOR, GROUP_SEPARATOR, SEGMENT_SEPARATOR}

AllIn(s, S) == \A i \in 1..Len(s) : s[i] \in S

RECURSIVE LStrip(_)
LStrip(s) == IF s # <<>> /\ Head(s) \in Whitespace THEN LStrip(Tail(s)) ELSE s

RECURSIVE RStrip(_)
RStrip(s) ==
  IF s # <<>> /\ s[Len(s)] \in Whitespace THEN RStrip(SubSeq(s, 1, Len(s) - 1)) ELSE s

\* str.strip()
Strip(s) == RStrip(LStrip(s))

\* s[a:b] with 0 <= a <= b, clipped to the string as Python slices are
Slice(s, a, b) ==
  LET hi == IF b < Len(s) THEN b ELSE Len(s)
  IN  IF a >= hi THEN <<>> ELSE SubSeq(s, a + 1, hi)

RECURSIVE Spaces(_)
Spaces(n) == IF n <= 0 THEN <<>> ELSE <<" ">> \o Spaces(n - 1)

\* str(n) for n >= 0
RECURSIVE NatToStr(_)
NatToStr(n) ==
  IF n < 10 THEN <<DigitChars[n + 1]>>
  ELSE NatToStr(n \div 10) \o <<DigitChars[(n % 10) + 1]>>

RECURSIVE DigitsToNat(_)
DigitsToNat(s) ==
  IF s = <<>> THEN 0
  ELSE 10 * DigitsToNat(SubSeq(s, 1, Len(s) - 1)) + DigitVal(s[Len(s)])

\* the digit groups int() accepts: digits with single underscores between them
IntBody(s) ==
  /\ s # <<>>
  /\ AllIn(s, Digits \cup {"_"})
  /\ s[1] # "_"
  /\ s[Len(s)] # "_"
  /\ \A i \in 1..(Len(s) - 1) : ~(s[i] = "_" /\ s[i + 1] = "_")

RECURSIVE DropUnderscores(_)
DropUnderscores(s) ==
  IF s = <<>> THEN <<>>
  ELSE IF Head(s) = "_" THEN DropUnderscores(Tail(s))
  ELSE <<Head(s)>> \o DropUnderscores(Tail(s))

\* int(s): surrounding whitespace and one sign are accepted; anything else
\* raises ValueError
IntOfStr(s) ==
  LET w == Strip(s)
      signed == w # <<>> /\ w[1] \in {"+", "-"}
      body == IF signed THEN Tail(w) ELSE w
      mag == DigitsToNat(DropUnderscores(body))
  IN  IF ~IntBody(body) THEN Raise("ValueError")
      ELSE IF signed /\ w[1] = "-" THEN PyInt(0 - mag)
      ELSE PyInt(mag)

\* a dict display given as its key/value pairs in source order: a key that
\* is written twice keeps the value written last
DictHas(pairs, k) == \E i \in 1..Len(pairs) : pairs[i][1] = k
DictGet(pairs, k) ==
  pairs[CHOOSE i \in 1..Len(pairs) :
          /\ pairs[i][1] = k
          /\ \A j \in (i + 1)..Len(pairs) : pairs[j][1] # k][2]

\* ---------------------------------------------------------------- Overpunch
\* hello.py encode_overpunch: the dict display
encode_overpunch_map ==
  << <<0, "{">>, <<1, "A">>, <<2, "B">>, <<3, "C">>, <<4, "D">>,
     <<5, "E">>, <<6, "F">>, <<7, "G">>, <<8, "H">>, <<9, "I">>,
     <<-0, "}">>, <<-1, "J">>, <<-2, "K">>, <<-3, "L">>, <<-4, "M">>,
     <<-5, "N">>, <<-6, "O">>, <<-7, "P">>, <<-8, "Q">>, <<-9, "R">> >>

Abs(n) == IF n < 0 THEN 0 - n ELSE n

encode_overpunch(value) ==
  LET str_value == NatToStr(Abs(value))
      last_digit == DigitVal(str_value[Len(str_value)]) * (IF value >= 0 THEN 1 ELSE -1)
      encoded_char == DictGet(encode_overpunch_map, last_digit)
  IN  SubSeq(str_value, 1, Len(str_value) - 1) \o <<encoded_char>>

\* the table without the entries that let a plain digit stand for itself
decode_overpunch_map_signed ==
  << <<"{", <<"0", FALSE>> >>, <<"A", <<"1", FALSE>> >>, <<"B", <<"2", FALSE>> >>,
     <<"C", <<"3", FALSE>> >>, <<"D", <<"4", FALSE>> >>, <<"E", <<"5", FALSE>> >>,
     <<"F", <<"6", FALSE>> >>, <<"G", <<"7", FALSE>> >>, <<"H", <<"8", FALSE>> >>,
     <<"I", <<"9", FALSE>> >>,
     <<"}", <<"0", TRUE>> >>, <<"J", <<"1", TRUE>> >>, <<"K", <<"2", TRUE>> >>,
     <<"L", <<"3", TRUE>> >>, <<"M", <<"4", TRUE>> >>, <<"N", <<"5", TRUE>> >>,
     <<"O", <<"6", TRUE>> >>, <<"P", <<"7", TRUE>> >>, <<"Q", <<"8", TRUE>> >>,
     <<"R", <<"9", TRUE>> >> >>

\* PricingSegment.decode_overpunch: the table, value = <<digit, negative>>
decode_overpunch_map ==
  << <<"0", <<"0", FALSE>> >>, <<"1", <<"1", FALSE>> >>, <<"2", <<"2", FALSE>> >>,
     <<"3", <<"3", FALSE>> >>, <<"4", <<"4", FALSE>> >>, <<"5", <<"5", FALSE>> >>,
     <<"6", <<"6", FALSE>> >>, <<"7", <<"7", FALSE>> >>, <<"8", <<"8", FALSE>> >>,
     <<"9", <<"9", FALSE>> >>,
     <<"{", <<"0", FALSE>> >>, <<"A", <<"1", FALSE>> >>, <<"B", <<"2", FALSE>> >>,
     <<"C", <<"3", FALSE>> >>, <<"D", <<"4", FALSE>> >>, <<"E", <<"5", FALSE>> >>,
     <<"F", <<"6", FALSE>> >>, <<"G", <<"7", FALSE>> >>, <<"H", <<"8", FALSE>> >>,
     <<"I", <<"9", FALSE>> >>,
     <<"}", <<"0", TRUE>> >>, <<"J", <<"1", TRUE>> >>, <<"K", <<"2", TRUE>> >>,
     <<"L", <<"3", TRUE>> >>, <<"M", <<"4", TRUE>> >>, <<"N", <<"5", TRUE>> >>,
     <<"O", <<"6", TRUE>> >>, <<"P", <<"7", TRUE>> >>, <<"Q", <<"8", TRUE>> >>,
     <<"R", <<"9", TRUE>> >> >>

decode_overpunch(value) ==
  IF value = <<>> THEN PyNone
  ELSE
    LET sign_char == value[Len(value)]
        number_part == SubSeq(value, 1, Len(value) - 1)
    IN  IF ~DictHas(decode_overpunch_map, Upper(sign_char)) THEN PyNone
        ELSE
          LET mapped == DictGet(decode_overpunch_map, Upper(sign_char))
              n == IntOfStr(number_part \o <<mapped[1]>>)
          IN  IF n.t = "err" THEN n
              ELSE IF mapped[2] THEN PyInt(0 - n.v)
              ELSE n

\* ------------------------------------------------- Overpunch: the machine
\* x is the caller's input, y the result of the first call, z the result of
\* the second call made on y.
OverpunchChars == {"0", "1", "2", "{", "}", "A", "J", "R", "Z", "a", "-", " "}

RECURSIVE StringsUpTo(_, _)
StringsUpTo(S, n) ==
  IF n = 0 THEN {<<>>}
  ELSE LET shorter == StringsUpTo(S, n - 1)
       IN  shorter \cup {Append(s, c) : s \in shorter, c \in S}

OverpunchInputs ==
  {PyInt(n) : n \in (0 - MaxOverpunchInt)..MaxOverpunchInt}
    \cup {PyStr(s) : s \in StringsUpTo(OverpunchChars, MaxOverpunchLen)}

InitOverpunch ==
  /\ pc = "start"
  /\ x \in OverpunchInputs
  /\ y = Unset
  /\ z = Unset

\* encode_overpunch called on the integer at hand
Encode ==
  /\ pc \in {"start", "decoded"}
  /\ (IF pc = "start" THEN x ELSE y).t = "int"
  /\ IF pc = "start"
       THEN /\ y' = PyStr(encode_overpunch(x.v))
            /\ pc' = "encoded"
            /\ z' = z
       ELSE /\ z' = PyStr(encode_overpunch(y.v))
            /\ pc' = "done"
            /\ y' = y
  /\ x' = x

\* decode_overpunch called on the string at hand
Decode ==
  /\ pc \in {"start", "encoded"}
  /\ (IF pc = "start" THEN x ELSE y).t = "str"
  /\ IF pc = "start"
       THEN /\ y' = decode_overpunch(x.v)
            /\ pc' = "decoded"
            /\ z' = z
       ELSE /\ z' = decode_overpunch(y.v)
            /\ pc' = "done"
            /\ y' = y
  /\ x' = x

NextOverpunch == Encode \/ Decode

SpecOverpunch == InitOverpunch /\ [][NextOverpunch]_vars

\* ------------------------------------------------------------ enumerations
\* an enumeration that lets the code ZZ through
Version_open == {<<"D", "0">>, <<"5", "1">>, <<"Z", "Z">>}
Version == {<<"D", "0">>, <<"5", "1">>}

TransactionCode ==
  {<<"B", "1">>, <<"B", "2">>, <<"B", "3">>, <<"C", "1">>, <<"C", "2">>, <<"C", "3">>,
   <<"D", "1">>, <<"E", "1">>, <<"N", "1">>, <<"N", "2">>, <<"N", "3">>,
   <<"P", "1">>, <<"P", "2">>, <<"P", "3">>, <<"P", "4">>,
   <<"S", "1">>, <<"S", "2">>, <<"S", "3">>, <<"F", "1">>, <<"F", "2">>, <<"F", "3">>}

\* --------------------------------------------------- fixed-width positions
NCPDPPosition(start, length, padding) ==
  [start |-> start, length |-> length, padding |-> padding]

\* NCPDPFormat; a position written without a direction takes the default,
\* PaddingDirection.LEFT
RXBIN == NCPDPPosition(0, 6, "right")
VERSION == NCPDPPosition(6, 2, "left")
TRANSACTION_CODE == NCPDPPosition(8, 2, "left")
PCN == NCPDPPosition(10, 10, "right")
TRANSACTION_COUNT == NCPDPPosition(20, 1, "left")
SERVICE_PROVIDER_ID_QUAL == NCPDPPosition(21, 2, "left")
SERVICE_PROVIDER_ID == NCPDPPosition(23, 15, "right")
SERVICE_DATE == NCPDPPosition(38, 8, "left")
CERTIFICATION_ID == NCPDPPosition(46, 10, "right")

\* NCPDPPosition.end
end(pos) == pos.start + pos.length

\* NCPDPPosition.slice
slice(pos, data) == Strip(Slice(data, pos.start, end(pos)))

\* pad that ignores the direction and always appends the spaces
pad_ljust(pos, value) ==
  LET val == IF value.t = "none" THEN <<>> ELSE value.v
  IN  IF Len(val) > pos.length THEN Raise("InvalidFieldLength")
      ELSE PyStr(val \o Spaces(pos.length - Len(val)))

\* pad that returns the value as it is, without filling the columns
pad_unfilled(pos, value) ==
  LET val == IF value.t = "none" THEN <<>> ELSE value.v
  IN  IF Len(val) > pos.length THEN Raise("InvalidFieldLength") ELSE PyStr(val)

\* pad that cuts a value longer than the field down to the field's length
pad_truncating(pos, value) ==
  LET val == IF value.t = "none" THEN <<>> ELSE value.v
  IN  IF Len(val) > pos.length THEN PyStr(Slice(val, 0, pos.length))
      ELSE IF pos.padding = "left" THEN PyStr(Spaces(pos.length - Len(val)) \o val)
      ELSE PyStr(val \o Spaces(pos.length - Len(val)))

\* NCPDPPosition.pad; str.rjust and str.ljust fill with spaces
pad(pos, value) ==
  LET val == IF value.t = "none" THEN <<>> ELSE value.v
  IN  IF Len(val) > pos.length THEN Raise("InvalidFieldLength")
      ELSE IF pos.padding = "left" THEN PyStr(Spaces(pos.length - Len(val)) \o val)
      ELSE PyStr(val \o Spaces(pos.length - Len(val)))

\* ------------------------------------------------------- NCPDPClaimHeader
\* the field constraints, as the set of error kinds a value draws
MatchDigits(s, n) == Len(s) = n /\ AllIn(s, Digits)

\* ^\d{4}(0[1-9]|1[0-2])(0[1-9]|[12]\d|3[01])$
MatchServiceDate(s) ==
  /\ MatchDigits(s, 8)
  /\ DigitsToNat(SubSeq(s, 5, 6)) \in 1..12
  /\ DigitsToNat(SubSeq(s, 7, 8)) \in 1..31

StrOnly(value, ok) ==
  IF value.t # "str" THEN {"InvalidFormat"} ELSE IF ok THEN {} ELSE {"InvalidFormat"}

OptionalMaxLength(value, n) ==
  IF value.t = "none" THEN {}
  ELSE IF value.t # "str" THEN {"InvalidFormat"}
  ELSE IF Len(value.v) > n THEN {"InvalidFieldLength"}
  ELSE {}

EnumMember(value, members) ==
  IF value.t = "str" /\ value.v \in members THEN {} ELSE {"UnknownCode"}

HeaderErrors(h) ==
  StrOnly(h.rxbin, MatchDigits(h.rxbin.v, 6))
    \cup EnumMember(h.version, Version)
    \cup EnumMember(h.transaction_code, TransactionCode)
    \cup OptionalMaxLength(h.pcn, 10)
    \cup StrOnly(h.transaction_count,
                 Len(h.transaction_count.v) = 1 /\ h.transaction_count.v[1] \in (Digits \ {"0"}))
    \cup StrOnly(h.service_provider_id_qual,
                 Len(h.service_provider_id_qual.v) \in {1, 2}
                   /\ AllIn(h.service_provider_id_qual.v, Digits))
    \cup OptionalMaxLength(h.service_provider_id, 15)
    \cup StrOnly(h.service_date, MatchServiceDate(h.service_date.v))
    \cup OptionalMaxLength(h.certification_id, 10)

\* NCPDPClaimHeader(...): the model, or the validation error
NCPDPClaimHeader(h) ==
  IF HeaderErrors(h) = {} THEN [t |-> "header", v |-> h]
  ELSE [t |-> "err", v |-> HeaderErrors(h)]

\* an optional field stored as its trimmed slice even when that is empty
OptionalSlice_keep_empty(pos, emi_string) == PyStr(slice(pos, emi_string))

\* parse lines 188-199: an optional field is None when its slice is blank
OptionalSlice(pos, emi_string) ==
  IF Strip(slice(pos, emi_string)) = <<>> THEN PyNone ELSE PyStr(slice(pos, emi_string))

\* Version(...), TransactionCode(...): the member, or ValueError
EnumCall(members, s) == IF s \in members THEN PyStr(s) ELSE Raise("UnknownCode")

\* NCPDPClaimHeader.parse
NCPDPClaimHeader_parse(emi_string) ==
  IF Len(emi_string) < NCPDP_HEADER_LENGTH THEN Raise("ShortInput")
  ELSE
    LET pcn == OptionalSlice(PCN, emi_string)
        service_provider_id == OptionalSlice(SERVICE_PROVIDER_ID, emi_string)
        certification_id == OptionalSlice(CERTIFICATION_ID, emi_string)
        version == EnumCall(Version, slice(VERSION, emi_string))
        transaction_code == EnumCall(TransactionCode, slice(TRANSACTION_CODE, emi_string))
    IN  IF version.t = "err" THEN version
        ELSE IF transaction_code.t = "err" THEN transaction_code
        ELSE NCPDPClaimHeader(
               [rxbin |-> PyStr(slice(RXBIN, emi_string)),
                version |-> version,
                transaction_code |-> transaction_code,
                pcn |-> pcn,
                transaction_count |-> PyStr(slice(TRANSACTION_COUNT, emi_string)),
                service_provider_id_qual |-> PyStr(slice(SERVICE_PROVIDER_ID_QUAL, emi_string)),
                service_provider_id |-> service_provider_id,
                service_date |-> PyStr(slice(SERVICE_DATE, emi_string)),
                certification_id |-> certification_id])

\* the concatenation of padded fields; the first pad that raises ends it
RECURSIVE Concat(_)
Concat(parts) ==
  IF parts = <<>> THEN PyStr(<<>>)
  ELSE IF Head(parts).t = "err" THEN Head(parts)
  ELSE LET rest == Concat(Tail(parts))
       IN  IF rest.t = "err" THEN rest ELSE PyStr(Head(parts).v \o rest.v)

\* NCPDPClaimHeader.serialize
NCPDPClaimHeader_serialize(h) ==
  Concat(<<pad(RXBIN, h.rxbin),
           pad(VERSION, h.version),
           pad(TRANSACTION_CODE, h.transaction_code),
           pad(PCN, h.pcn),
           pad(TRANSACTION_COUNT, h.transaction_count),
           pad(SERVICE_PROVIDER_ID_QUAL, h.service_provider_id_qual),
           pad(SERVICE_PROVIDER_ID, h.service_provider_id),
           pad(SERVICE_DATE, h.service_date),
           pad(CERTIFICATION_ID, h.certification_id)>>)

\* ---------------------------------------------------- segment enumerations
PrescriptionServiceReferenceNumberQualifier == {<<"0", "1">>, <<"0", "2">>, <<"0", "3">>}

ProductServiceIdQualifier ==
  {<<"0", "0">>, <<"0", "1">>, <<"0", "2">>, <<"0", "3">>, <<"0", "4">>, <<"0", "6">>, <<"0", "7">>, <<"0", "8">>, <<"0", "9">>,
   <<"1", "0">>, <<"1", "1">>, <<"1", "2">>, <<"1", "5">>, <<"2", "8">>, <<"2", "9">>, <<"3", "0">>, <<"3", "1">>, <<"3", "2">>,
   <<"3", "3">>, <<"3", "4">>, <<"3", "6">>, <<"4", "2">>, <<"4", "3">>, <<"4", "4">>, <<"4", "5">>, <<"9", "9">>}

SpecialPackagingIndicator ==
  {<<"0">>, <<"1">>, <<"2">>, <<"3">>, <<"4">>, <<"5">>, <<"6">>, <<"7">>, <<"8">>}

Gender == {<<"0">>, <<"1">>, <<"2">>}

\* ------------------------------------------------------------- datetime
PyDatetime(year, month, day, second) ==
  [t |-> "datetime", v |-> <<year, month, day, second>>]

IsLeap(year) == (year % 4 = 0 /\ year % 100 # 0) \/ year % 400 = 0

DaysInMonth(year, month) ==
  IF month = 2 THEN (IF IsLeap(year) THEN 29 ELSE 28)
  ELSE IF month \in {4, 6, 9, 11} THEN 30
  ELSE 31

\* the alternatives of the %m and %d directives, in the order the regular
\* expression of strptime tries them
MonthDirective(s) ==
  \/ Len(s) = 2 /\ AllIn(s, Digits) /\ DigitsToNat(s) \in 1..12
  \/ Len(s) = 1 /\ s[1] \in (Digits \ {"0"})

DayDirective(s) ==
  \/ Len(s) = 2 /\ AllIn(s, Digits) /\ DigitsToNat(s) \in 1..31
  \/ Len(s) = 1 /\ s[1] \in (Digits \ {"0"})
  \/ Len(s) = 2 /\ s[1] = " " /\ s[2] \in (Digits \ {"0"})

\* datetime.strptime(value, "%Y%m%d"): four digits of year, then the first
\* split of the rest into a month and a day that uses the whole text (the
\* longer month is tried first); the date must exist
strptime(value) ==
  IF Len(value) < 6 \/ ~AllIn(SubSeq(value, 1, 4), Digits) THEN Raise("InvalidFormat")
  ELSE
    LET year == DigitsToNat(SubSeq(value, 1, 4))
        rest == SubSeq(value, 5, Len(value))
        Fits(k) == /\ k < Len(rest)
                   /\ MonthDirective(SubSeq(rest, 1, k))
                   /\ DayDirective(SubSeq(rest, k + 1, Len(rest)))
    IN  IF ~(Fits(2) \/ Fits(1)) THEN Raise("InvalidFormat")
        ELSE
          LET k == IF Fits(2) THEN 2 ELSE 1
              month == DigitsToNat(SubSeq(rest, 1, k))
              day == DigitsToNat(Strip(SubSeq(rest, k + 1, Len(rest))))
          IN  IF year < 1 \/ day > DaysInMonth(year, month) THEN Raise("InvalidFormat")
              ELSE PyDatetime(year, month, day, 0)

TwoDigits(n) == IF n < 10 THEN <<"0">> \o NatToStr(n) ELSE NatToStr(n)

\* dob.strftime("%Y%m%d"): %m and %d are zero-padded; %Y is the year as the
\* C library prints it, which on Linux is without leading zeros
strftime(dt) == NatToStr(dt.v[1]) \o TwoDigits(dt.v[2]) \o TwoDigits(dt.v[3])

\* -------------------------------------------------------- segment classes
\* key_mapping: the _key_mapping dict, in source order.  fields: the
\* annotated attributes, with their constraint and whether they have no
\* default.  pieces: the keys of serialize, in the order it writes them.
Field(name, type, required) == [name |-> name, type |-> type, required |-> required]

\* InsuranceSegment with serialize writing the pieces in the order of
\* _key_mapping
InsuranceSegment_table_order ==
  [name |-> "InsuranceSegment",
   segment_id |-> <<"A", "M", "0", "4">>,
   key_mapping |-> << <<<<"C", "1">>, "first_name">>, <<<<"C", "2">>, "internal_control_number">>,
                      <<<<"C", "3">>, "person_code">>, <<<<"A", "6">>, "cardholder_id">>,
                      <<<<"A", "7">>, "last_name">> >>,
   fields |-> <<Field("first_name", "str", TRUE), Field("last_name", "str", TRUE),
                Field("person_code", "str", TRUE), Field("cardholder_id", "str", TRUE),
                Field("internal_control_number", "str", TRUE)>>,
   pieces |-> << <<<<"C", "1">>, "first_name">>, <<<<"C", "2">>, "internal_control_number">>,
                 <<<<"C", "3">>, "person_code">>, <<<<"A", "6">>, "cardholder_id">>,
                 <<<<"A", "7">>, "last_name">> >>]

InsuranceSegment ==
  [name |-> "InsuranceSegment",
   segment_id |-> <<"A", "M", "0", "4">>,
   key_mapping |-> << <<<<"C", "1">>, "first_name">>, <<<<"C", "2">>, "internal_control_number">>,
                      <<<<"C", "3">>, "person_code">>, <<<<"A", "6">>, "cardholder_id">>,
                      <<<<"A", "7">>, "last_name">> >>,
   fields |-> <<Field("first_name", "str", TRUE), Field("last_name", "str", TRUE),
                Field("person_code", "str", TRUE), Field("cardholder_id", "str", TRUE),
                Field("internal_control_number", "str", TRUE)>>,
   pieces |-> << <<<<"C", "2">>, "internal_control_number">>, <<<<"C", "1">>, "first_name">>,
                 <<<<"C", "3">>, "person_code">>, <<<<"A", "6">>, "cardholder_id">>,
                 <<<<"A", "7">>, "last_name">> >>]

PatientSegment ==
  [name |-> "PatientSegment",
   segment_id |-> <<"A", "M", "0", "1">>,
   key_mapping |-> << <<<<"C", "4">>, "dob">>, <<<<"C", "5">>, "patient_gender">>,
                      <<<<"C", "A">>, "last_name">>, <<<<"C", "B">>, "first_name">>,
                      <<<<"C", "P">>, "patient_zip">> >>,
   fields |-> <<Field("dob", "datetime", TRUE), Field("patient_gender", "Gender", TRUE),
                Field("last_name", "str", TRUE), Field("first_name", "str", TRUE),
                Field("patient_zip", "str", TRUE)>>,
   pieces |-> << <<<<"C", "4">>, "dob">>, <<<<"C", "5">>, "patient_gender">>,
                 <<<<"C", "A">>, "last_name">>, <<<<"C", "B">>, "first_name">>,
                 <<<<"C", "P">>, "patient_zip">> >>]

ClaimSegment ==
  [name |-> "ClaimSegment",
   segment_id |-> <<"A", "M", "0", "7">>,
   key_mapping |-> << <<<<"E", "M">>, "prescription_service_reference_number_qualifier">>,
                      <<<<"D", "2">>, "prescription_service_reference_number">>,
                      <<<<"E", "1">>, "product_service_id_qualifier">>,
                      <<<<"D", "7">>, "product_service_id">>,
                      <<<<"E", "7">>, "quantity_dispensed">>,
                      <<<<"D", "3">>, "fill_number">>,
                      <<<<"S", "E">>, "procedure_modifiers">>,
                      <<<<"D", "5">>, "days_supply">>,
                      <<<<"D", "8">>, "daw_product_selection_code">>,
                      <<<<"D", "E">>, "date_prescription_written">>,
                      <<<<"D", "6">>, "refills_authorized">>,
                      <<<<"D", "F">>, "number_authorized_refills">>,
                      <<<<"D", "J">>, "prescription_origin_code">>,
                      <<<<"D", "T">>, "special_packaging_indicator">>,
                      <<<<"E", "B">>, "other_coverage_code">> >>,
   fields |-> <<Field("daw_product_selection_code", "str", TRUE),
                Field("date_prescription_written", "str", TRUE),
                Field("days_supply", "str", TRUE),
                Field("other_coverage_code", "optional str", FALSE),
                Field("prescription_origin_code", "str", TRUE),
                Field("procedure_modifiers", "two characters", TRUE),
                Field("prescription_service_reference_number", "twelve digits", TRUE),
                Field("prescription_service_reference_number_qualifier",
                      "PrescriptionServiceReferenceNumberQualifier", TRUE),
                Field("product_service_id", "alphanumeric", TRUE),
                Field("product_service_id_qualifier", "ProductServiceIdQualifier", TRUE),
                Field("quantity_dispensed", "str", TRUE),
                Field("refills_authorized", "str", TRUE),
                Field("fill_number", "str", TRUE),
                Field("number_authorized_refills", "str", TRUE),
                Field("special_packaging_indicator", "optional SpecialPackagingIndicator",
                      FALSE)>>,
   pieces |-> << <<<<"E", "M">>, "prescription_service_reference_number_qualifier">>,
                 <<<<"D", "2">>, "prescription_service_reference_number">>,
                 <<<<"E", "1">>, "product_service_id_qualifier">>,
                 <<<<"D", "7">>, "product_service_id">>,
                 <<<<"S", "E">>, "procedure_modifiers">>,
                 <<<<"E", "7">>, "quantity_dispensed">>,
                 <<<<"D", "3">>, "fill_number">>,
                 <<<<"D", "5">>, "days_supply">>,
                 <<<<"D", "6">>, "refills_authorized">>,
                 <<<<"D", "8">>, "daw_product_selection_code">>,
                 <<<<"D", "E">>, "date_prescription_written">>,
                 <<<<"D", "F">>, "number_authorized_refills">>,
                 <<<<"D", "J">>, "prescription_origin_code">>,
                 <<<<"D", "T">>, "special_packaging_indicator">>,
                 <<<<"E", "B">>, "other_coverage_code">> >>]

PricingSegment ==
  [name |-> "PricingSegment",
   segment_id |-> <<"A", "M", "1", "1">>,
   key_mapping |-> << <<<<"D", "9">>, "ingredient_cost_submitted">>,
                      <<<<"D", "C">>, "dispensing_fee_submitted">>,
                      <<<<"E", "3">>, "professional_service_fee_submitted">>,
                      <<<<"D", "Q">>, "gross_amount_due">>,
                      <<<<"D", "U">>, "other_amount_claimed">> >>,
   fields |-> <<Field("ingredient_cost_submitted", "overpunch", TRUE),
                Field("dispensing_fee_submitted", "overpunch", TRUE),
                Field("professional_service_fee_submitted", "optional overpunch", FALSE),
                Field("gross_amount_due", "overpunch", TRUE),
                Field("other_amount_claimed", "overpunch", TRUE)>>,
   pieces |-> << <<<<"D", "9">>, "ingredient_cost_submitted">>,
                 <<<<"D", "C">>, "dispensing_fee_submitted">>,
                 <<<<"E", "3">>, "professional_service_fee_submitted">>,
                 <<<<"D", "Q">>, "gross_amount_due">>,
                 <<<<"D", "U">>, "other_amount_claimed">> >>]

PrescriberSegment ==
  [name |-> "PrescriberSegment",
   segment_id |-> <<"A", "M", "0", "3">>,
   key_mapping |-> << <<<<"E", "Z">>, "prescriber_id_qualifier">>, <<<<"D", "B">>, "prescriber_id">> >>,
   fields |-> <<Field("prescriber_id_qualifier", "str", TRUE),
                Field("prescriber_id", "str", TRUE)>>,
   pieces |-> << <<<<"E", "Z">>, "prescriber_id_qualifier">>, <<<<"D", "B">>, "prescriber_id">> >>]

PharmacyProviderSegment ==
  [name |-> "PharmacyProviderSegment",
   segment_id |-> <<"A", "M", "0", "6">>,
   key_mapping |-> << <<<<"D", "Z">>, "group_id">> >>,
   fields |-> <<Field("group_id", "str", TRUE)>>,
   pieces |-> << <<<<"D", "Z">>, "group_id">> >>]

ClinicalSegment ==
  [name |-> "ClinicalSegment",
   segment_id |-> <<"A", "M", "0", "8">>,
   key_mapping |-> << <<<<"7", "E">>, "other_payer_coverage_type">>,
                      <<<<"E", "5">>, "other_payer_id_qualifier">> >>,
   fields |-> <<Field("other_payer_coverage_type", "str", TRUE),
                Field("other_payer_id_qualifier", "str", TRUE)>>,
   pieces |-> << <<<<"7", "E">>, "other_payer_coverage_type">>,
                 <<<<"E", "5">>, "other_payer_id_qualifier">> >>]

\* parse_segment: segment_classes
segment_classes ==
  <<InsuranceSegment, PatientSegment, ClaimSegment, PricingSegment,
    PrescriberSegment, PharmacyProviderSegment, ClinicalSegment>>

ClassNamed(name) ==
  segment_classes[CHOOSE i \in 1..Len(segment_classes) : segment_classes[i].name = name]

\* ------------------------------------------------------ field validation
Alphanumerics ==
  Digits \cup {LowerChars[i] : i \in 1..26} \cup {UpperChars[i] : i \in 1..26}

\* ^\d+[A-IJ-R{}]$
MatchOverpunch(s) ==
  /\ Len(s) >= 2
  /\ AllIn(SubSeq(s, 1, Len(s) - 1), Digits)
  /\ s[Len(s)] \in ({UpperChars[i] : i \in 1..18} \cup {"{", "}"})

\* f"{value:02}"
FormatWidth2(n) == IF n < 0 THEN <<"-">> \o NatToStr(0 - n) ELSE TwoDigits(n)

\* normalize_qualifier that also drops the whitespace around the value
normalize_qualifier_trimmed(value) ==
  IF value.t = "int" THEN PyStr(FormatWidth2(value.v))
  ELSE IF value.t = "str" /\ Len(Strip(value.v)) = 1 /\ Strip(value.v)[1] \in Digits
    THEN PyStr(<<"0">> \o Strip(value.v))
  ELSE value

\* ClaimSegment.normalize_qualifier
normalize_qualifier(value) ==
  IF value.t = "int" THEN PyStr(FormatWidth2(value.v))
  ELSE IF value.t = "str" /\ Len(value.v) = 1 /\ value.v[1] \in Digits
    THEN PyStr(<<"0">> \o value.v)
  ELSE value

Invalid(kind) == [ok |-> FALSE, v |-> kind]
Valid(value) == [ok |-> TRUE, v |-> value]

EnumField(value, members) ==
  IF value.t = "str" /\ value.v \in members THEN Valid(value) ELSE Invalid("UnknownCode")

PatternField(value, matches) ==
  IF value.t = "str" /\ matches THEN Valid(value) ELSE Invalid("InvalidFormat")

\* the validated (and converted) value of one attribute, or its error
ValidateField(type, value) ==
  CASE type = "str" -> PatternField(value, TRUE)
    [] type = "optional str" ->
         IF value.t = "none" THEN Valid(value) ELSE PatternField(value, TRUE)
    [] type = "overpunch" -> PatternField(value, MatchOverpunch(value.v))
    [] type = "optional overpunch" ->
         IF value.t = "none" THEN Valid(value)
         ELSE PatternField(value, MatchOverpunch(value.v))
    [] type = "two characters" ->
         PatternField(value, Len(value.v) = 2 /\ "\n" \notin {value.v[1], value.v[2]})
    [] type = "twelve digits" -> PatternField(value, MatchDigits(value.v, 12))
    [] type = "alphanumeric" ->
         PatternField(value, Len(value.v) \in 1..19 /\ AllIn(value.v, Alphanumerics))
    [] type = "Gender" -> EnumField(value, Gender)
    [] type = "ProductServiceIdQualifier" -> EnumField(value, ProductServiceIdQualifier)
    [] type = "PrescriptionServiceReferenceNumberQualifier" ->
         EnumField(normalize_qualifier(value), PrescriptionServiceReferenceNumberQualifier)
    [] type = "optional SpecialPackagingIndicator" ->
         IF value.t = "none" THEN Valid(value)
         ELSE EnumField(value, SpecialPackagingIndicator)
    [] type = "datetime" ->
         IF value.t = "datetime" THEN Valid(value)
         ELSE IF value.t = "str"
           THEN (IF strptime(value.v).t = "err" THEN Invalid("InvalidFormat")
                 ELSE Valid(strptime(value.v)))
         ELSE Invalid("InvalidFormat")

FieldNames(class) == {class.fields[i].name : i \in 1..Len(class.fields)}
FieldNamed(class, name) ==
  class.fields[CHOOSE i \in 1..Len(class.fields) : class.fields[i].name = name]

\* validation that gives every attribute without a piece the value None
SegmentErrors_defaults(class, kwargs) ==
  {ValidateField(FieldNamed(class, n).type, kwargs[n]).v :
     n \in {m \in FieldNames(class) \cap DOMAIN kwargs :
              ~ValidateField(FieldNamed(class, m).type, kwargs[m]).ok}}

\* segment_class(**kwargs): kwargs is a function from attribute names to
\* values.  A missing attribute takes its default or is an error; names
\* that are not attributes are ignored.
SegmentErrors(class, kwargs) ==
  {"MissingRequiredField" :
     n \in {m \in FieldNames(class) : FieldNamed(class, m).required /\ m \notin DOMAIN kwargs}}
    \cup {ValidateField(FieldNamed(class, n).type, kwargs[n]).v :
            n \in {m \in FieldNames(class) \cap DOMAIN kwargs :
                     ~ValidateField(FieldNamed(class, m).type, kwargs[m]).ok}}
    \cup (IF "segment_id" \in DOMAIN kwargs /\ kwargs["segment_id"].t # "str"
            THEN {"InvalidFormat"} ELSE {})

Segment(class, kwargs) ==
  IF SegmentErrors(class, kwargs) # {} THEN [t |-> "err", v |-> SegmentErrors(class, kwargs)]
  ELSE [t |-> "segment",
        cls |-> class.name,
        v |-> [n \in FieldNames(class) \cup {"segment_id"} |->
                 IF n = "segment_id"
                   THEN (IF n \in DOMAIN kwargs THEN kwargs[n] ELSE PyStr(class.segment_id))
                 ELSE IF n \in DOMAIN kwargs
                   THEN ValidateField(FieldNamed(class, n).type, kwargs[n]).v
                 ELSE PyNone]]

\* ------------------------------------------------------- segment parsing
\* str.split(sep) for a one-character separator
RECURSIVE Split(_, _)
Split(s, sep) ==
  IF \A i \in 1..Len(s) : s[i] # sep THEN <<s>>
  ELSE LET i == CHOOSE k \in 1..Len(s) : s[k] = sep /\ \A j \in 1..(k - 1) : s[j] # sep
       IN  <<SubSeq(s, 1, i - 1)>> \o Split(SubSeq(s, i + 1, Len(s)), sep)

\* map_values_to_keys that stops at the first piece without a known key
map_values_to_keys_until_unknown(segment_mapping, values) ==
  LET Known(i) == DictHas(segment_mapping, Slice(values[i], 0, 2))
      swept == {i \in 1..Len(values) : \A j \in 1..i : Known(j)}
      Name(i) == DictGet(segment_mapping, Slice(values[i], 0, 2))
      names == {Name(i) : i \in swept}
      LastOf(n) == CHOOSE i \in swept :
                     /\ Name(i) = n
                     /\ \A j \in swept : j > i => Name(j) # n
  IN  [n \in names |-> PyStr(Slice(values[LastOf(n)], 2, Len(values[LastOf(n)])))]

\* map_values_to_keys that keeps the first value with a given key
map_values_to_keys_first_wins(segment_mapping, values) ==
  LET Known(i) == DictHas(segment_mapping, Slice(values[i], 0, 2))
      Name(i) == DictGet(segment_mapping, Slice(values[i], 0, 2))
      names == {Name(i) : i \in {j \in 1..Len(values) : Known(j)}}
      FirstOf(n) == CHOOSE i \in 1..Len(values) :
                      /\ Known(i) /\ Name(i) = n
                      /\ \A j \in 1..(i - 1) : ~(Known(j) /\ Name(j) = n)
  IN  [n \in names |-> PyStr(Slice(values[FirstOf(n)], 2, Len(values[FirstOf(n)])))]

\* map_values_to_keys: a dict comprehension over values, in order, so the
\* last value with a given key is the one kept
map_values_to_keys(segment_mapping, values) ==
  LET Known(i) == DictHas(segment_mapping, Slice(values[i], 0, 2))
      Name(i) == DictGet(segment_mapping, Slice(values[i], 0, 2))
      names == {Name(i) : i \in {j \in 1..Len(values) : Known(j)}}
      LastOf(n) == CHOOSE i \in 1..Len(values) :
                     /\ Known(i) /\ Name(i) = n
                     /\ \A j \in (i + 1)..Len(values) : ~(Known(j) /\ Name(j) = n)
  IN  [n \in names |-> PyStr(Slice(values[LastOf(n)], 2, Len(values[LastOf(n)])))]

\* parse_segment that refuses a segment identifier it does not know
parse_segment_known_only(raw_segment) ==
  IF raw_segment = <<>> THEN PyNone
  ELSE
    LET parts == Split(raw_segment, FIELD_SEPARATOR)
        segment_id == Head(parts)
        values == Tail(parts)
        hits == {i \in 1..Len(segment_classes) : segment_classes[i].segment_id = segment_id}
    IN  IF hits = {} THEN Raise("ValueError")
        ELSE LET segment_class == segment_classes[CHOOSE i \in hits : \A j \in hits : i <= j]
             IN  Segment(segment_class, map_values_to_keys(segment_class.key_mapping, values))

\* parse_segment
parse_segment(raw_segment) ==
  IF raw_segment = <<>> THEN PyNone
  ELSE
    LET parts == Split(raw_segment, FIELD_SEPARATOR)
        segment_id == Head(parts)
        values == Tail(parts)
        hits == {i \in 1..Len(segment_classes) : segment_classes[i].segment_id = segment_id}
    IN  IF hits = {} THEN PyNone
        ELSE LET segment_class == segment_classes[CHOOSE i \in hits : \A j \in hits : i <= j]
             IN  Segment(segment_class, map_values_to_keys(segment_class.key_mapping, values))

\* ---------------------------------------------------- segment serializing
\* what an f-string writes for an attribute
FormatValue(value) ==
  CASE value.t = "str" -> value.v
    [] value.t = "none" -> <<"N", "o", "n", "e">>
    [] value.t = "datetime" -> strftime(value)

RECURSIVE Join(_, _)
Join(sep, parts) ==
  IF parts = <<>> THEN <<>>
  ELSE IF Len(parts) = 1 THEN parts[1]
  ELSE parts[1] \o <<sep>> \o Join(sep, Tail(parts))

\* serialize written over _key_mapping, as in the commented-out variant of
\* ClaimSegment.serialize
Segment_serialize_by_key_mapping(segment) ==
  LET class == ClassNamed(segment.cls)
      values == <<FormatValue(segment.v["segment_id"])>>
                  \o [i \in 1..Len(class.key_mapping) |->
                        class.key_mapping[i][1]
                          \o FormatValue(segment.v[class.key_mapping[i][2]])]
  IN  <<FIELD_SEPARATOR>> \o Join(FIELD_SEPARATOR, values)

\* the serialize method of each segment class
Segment_serialize(segment) ==
  LET class == ClassNamed(segment.cls)
      values == <<FormatValue(segment.v["segment_id"])>>
                  \o [i \in 1..Len(class.pieces) |->
                        class.pieces[i][1] \o FormatValue(segment.v[class.pieces[i][2]])]
  IN  <<FIELD_SEPARATOR>> \o Join(FIELD_SEPARATOR, values)

\* ------------------------------------------------------------ ClaimModel
\* ClaimModel whose pricing attribute may be left out
ClaimFields_pricing_optional ==
  <<[name |-> "insurance", cls |-> "InsuranceSegment", required |-> TRUE],
    [name |-> "patient", cls |-> "PatientSegment", required |-> TRUE],
    [name |-> "claim", cls |-> "ClaimSegment", required |-> TRUE],
    [name |-> "pricing", cls |-> "PricingSegment", required |-> FALSE],
    [name |-> "prescriber", cls |-> "PrescriberSegment", required |-> FALSE],
    [name |-> "pharmacy_provider", cls |-> "PharmacyProviderSegment", required |-> FALSE],
    [name |-> "clinical", cls |-> "ClinicalSegment", required |-> FALSE]>>

ClaimFields ==
  <<[name |-> "insurance", cls |-> "InsuranceSegment", required |-> TRUE],
    [name |-> "patient", cls |-> "PatientSegment", required |-> TRUE],
    [name |-> "claim", cls |-> "ClaimSegment", required |-> TRUE],
    [name |-> "pricing", cls |-> "PricingSegment", required |-> TRUE],
    [name |-> "prescriber", cls |-> "PrescriberSegment", required |-> FALSE],
    [name |-> "pharmacy_provider", cls |-> "PharmacyProviderSegment", required |-> FALSE],
    [name |-> "clinical", cls |-> "ClinicalSegment", required |-> FALSE]>>

ClaimFieldNames == {ClaimFields[i].name : i \in 1..Len(ClaimFields)}
ClaimFieldNamed(name) ==
  ClaimFields[CHOOSE i \in 1..Len(ClaimFields) : ClaimFields[i].name = name]

\* ClaimModel(**kwargs): kwargs is a function from attribute names to a
\* header or a segment
ClaimErrors(kwargs) ==
  {"MissingRequiredSegment" :
     n \in {m \in ClaimFieldNames \cup {"header"} :
              /\ m \notin DOMAIN kwargs
              /\ (m = "header" \/ ClaimFieldNamed(m).required)}}
    \cup {"InvalidFormat" :
            n \in {m \in ClaimFieldNames \cap DOMAIN kwargs :
                     /\ ~(kwargs[m].t = "none" /\ ~ClaimFieldNamed(m).required)
                     /\ ~(kwargs[m].t = "segment" /\ kwargs[m].cls = ClaimFieldNamed(m).cls)}}
    \cup (IF "header" \in DOMAIN kwargs /\ kwargs["header"].t # "header"
            THEN {"InvalidFormat"} ELSE {})

ClaimModel(kwargs) ==
  IF ClaimErrors(kwargs) # {} THEN [t |-> "err", v |-> ClaimErrors(kwargs)]
  ELSE [t |-> "claim",
        v |-> [n \in ClaimFieldNames \cup {"header"} |->
                 IF n \in DOMAIN kwargs THEN kwargs[n] ELSE PyNone]]

\* ClaimModel.from_segments: each segment is stored under the attribute of
\* its class, a later one replacing an earlier one; the attributes still
\* None are not passed on
ClaimModel_from_segments(header, segments) ==
  LET Held(n) == {i \in 1..Len(segments) : segments[i].cls = ClaimFieldNamed(n).cls}
      Last(S) == CHOOSE i \in S : \A j \in S : j <= i
      filled == {n \in ClaimFieldNames : Held(n) # {}}
      given == filled \cup (IF header.t = "none" THEN {} ELSE {"header"})
  IN  ClaimModel([n \in given |->
                    IF n = "header" THEN header ELSE segments[Last(Held(n))]])

\* list.insert(index, item)
Insert(list, index, item) ==
  LET i == IF index > Len(list) THEN Len(list) ELSE index
  IN  SubSeq(list, 1, i) \o <<item>> \o SubSeq(list, i + 1, Len(list))

RECURSIVE SerializePresent(_)
SerializePresent(segments) ==
  IF segments = <<>> THEN <<>>
  ELSE IF Head(segments).t = "none" THEN SerializePresent(Tail(segments))
  ELSE <<Segment_serialize(Head(segments))>> \o SerializePresent(Tail(segments))

\* serialize that writes the pharmacy provider before the prescriber
ClaimModel_serialize_provider_first(m) ==
  LET header == NCPDPClaimHeader_serialize(m["header"].v)
  IN  IF header.t = "err" THEN header
      ELSE
        LET segments == <<header.v>>
                          \o SerializePresent(<<m["insurance"], m["claim"], m["pricing"],
                                                m["pharmacy_provider"], m["prescriber"],
                                                m["clinical"]>>)
            withPatient == Insert(segments, 2,
                                  Segment_serialize(m["patient"]) \o <<GROUP_SEPARATOR>>)
        IN  PyStr(Join(SEGMENT_SEPARATOR, withPatient))

\* serialize that puts the Patient text right after the header
ClaimModel_serialize_patient_first(m) ==
  LET header == NCPDPClaimHeader_serialize(m["header"].v)
  IN  IF header.t = "err" THEN header
      ELSE
        LET segments == <<header.v>>
                          \o SerializePresent(<<m["insurance"], m["claim"], m["pricing"],
                                                m["prescriber"], m["pharmacy_provider"],
                                                m["clinical"]>>)
            withPatient == Insert(segments, 1,
                                  Segment_serialize(m["patient"]) \o <<GROUP_SEPARATOR>>)
        IN  PyStr(Join(SEGMENT_SEPARATOR, withPatient))

\* ClaimModel.serialize
ClaimModel_serialize(m) ==
  LET header == NCPDPClaimHeader_serialize(m["header"].v)
  IN  IF header.t = "err" THEN header
      ELSE
        LET segments == <<header.v>>
                          \o SerializePresent(<<m["insurance"], m["claim"], m["pricing"],
                                                m["prescriber"], m["pharmacy_provider"],
                                                m["clinical"]>>)
            withPatient == Insert(segments, 2,
                                  Segment_serialize(m["patient"]) \o <<GROUP_SEPARATOR>>)
        IN  PyStr(Join(SEGMENT_SEPARATOR, withPatient))

\* the parsed segments of the raw pieces, in order, None left out; or the
\* first error
RECURSIVE ParseSegments(_)
ParseSegments(raw_segments) ==
  IF raw_segments = <<>> THEN [t |-> "list", v |-> <<>>]
  ELSE
    LET segment == parse_segment(Strip(Head(raw_segments)))
    IN  IF segment.t = "err" THEN segment
        ELSE
          LET rest == ParseSegments(Tail(raw_segments))
          IN  IF rest.t = "err" THEN rest
              ELSE IF segment.t = "none" THEN rest
              ELSE [t |-> "list", v |-> <<segment>> \o rest.v]

\* ClaimModel.from_file, from the text of the file on
ClaimModel_from_file(content) ==
  LET parts == Split(content, SEGMENT_SEPARATOR)
      claim_header == NCPDPClaimHeader_parse(Head(parts))
  IN  IF claim_header.t = "err" THEN claim_header
      ELSE
        LET segments == ParseSegments(Tail(parts))
        IN  IF segments.t = "err" THEN segments
            ELSE ClaimModel_from_segments(claim_header, segments.v)
\* ------------------------------------------------- Overpunch: properties
PositiveRow == <<"{", "A", "B", "C", "D", "E", "F", "G", "H", "I">>
NegativeRow == <<"}", "J", "K", "L", "M", "N", "O", "P", "Q", "R">>
OverpunchTable == Digits \cup {PositiveRow[i] : i \in 1..10} \cup {NegativeRow[i] : i \in 1..10}

\* one or more decimal digits followed by a terminal of the table
OverpunchString(s) ==
  /\ Len(s) >= 2
  /\ AllIn(SubSeq(s, 1, Len(s) - 1), Digits)
  /\ s[Len(s)] \in OverpunchTable

\* C4: decode_overpunch(encode_overpunch(n)) = n for every integer n.
C4_DecodeEncodeIsIdentity ==
  (pc = "done" /\ x.t = "int") => (z.t = "int" /\ z.v = x.v)

\* C5: encode_overpunch(0) ends in "{" and never in the negative zero "}".
C5_ZeroEncodesCanonical ==
  (pc = "encoded" /\ x.t = "int" /\ x.v = 0) => y.v[Len(y.v)] = "{"

\* C6: encode_overpunch(decode_overpunch(s)) = s for every overpunch string
\* s, except that a plain digit terminal d comes back as the positive
\* overpunch character of d.
C6_EncodeDecodeIsIdentity ==
  (pc = "done" /\ x.t = "str" /\ OverpunchString(x.v)) =>
    LET s == x.v
        last == s[Len(s)]
        expected == IF last \in Digits
                      THEN SubSeq(s, 1, Len(s) - 1) \o <<PositiveRow[DigitVal(last) + 1]>>
                      ELSE s
    IN  z.t = "str" /\ z.v = expected

\* C7: decode_overpunch(s) ends in an error, not in a returned value, when
\* the last character of s is not in the table or the characters before it
\* are not all decimal digits.
C7_DecodeRejectsMalformed ==
  (/\ pc = "decoded"
   /\ x.t = "str"
   /\ Len(x.v) >= 1
   /\ \/ x.v[Len(x.v)] \notin OverpunchTable
      \/ ~AllIn(SubSeq(x.v, 1, Len(x.v) - 1), Digits))
    => y.t = "err"

\* every decode_overpunch call of the machine: its argument and its result
DecodeCalls ==
  (IF pc \in {"decoded", "done"} /\ x.t = "str" THEN {<<x.v, y>>} ELSE {})
    \cup (IF pc = "done" /\ y.t = "str" THEN {<<y.v, z>>} ELSE {})

\* the digit a terminal of the table stands for
MappedDigit(c) ==
  IF c \in Digits THEN DigitVal(c)
  ELSE (CHOOSE i \in 1..10 : PositiveRow[i] = c \/ NegativeRow[i] = c) - 1

NegativeTerminal(c) == \E i \in 1..10 : NegativeRow[i] = c

\* decimal digits, none included, followed by a terminal of the table
DigitsThenTerminal(s) ==
  /\ Len(s) >= 1
  /\ AllIn(SubSeq(s, 1, Len(s) - 1), Digits)
  /\ s[Len(s)] \in OverpunchTable

\* C26: for decimal digits followed by a terminal of the table,
\* decode_overpunch returns the integer whose magnitude is the digits
\* followed by the terminal's digit, negated exactly when the terminal is
\* of the negative row; a plain digit terminal gives a non-negative value,
\* and 0{ and 0} both give 0.
C26_DecodeValue ==
  \A call \in DecodeCalls :
    DigitsThenTerminal(call[1]) =>
      LET s == call[1]
          last == s[Len(s)]
          magnitude == 10 * DigitsToNat(SubSeq(s, 1, Len(s) - 1)) + MappedDigit(last)
      IN  /\ call[2] = PyInt(IF NegativeTerminal(last) THEN 0 - magnitude ELSE magnitude)
          /\ last \in Digits => call[2].v >= 0
          /\ s \in {<<"0", "{">>, <<"0", "}">>} => call[2].v = 0

\* two digits followed by a terminal of the negative row have been decoded
C26_Witness ==
  /\ pc = "decoded"
  /\ x.t = "str"
  /\ x.v = <<"1", "0", "J">>
  /\ y = PyInt(-101)

\* every encode_overpunch call of the machine: its argument and its result
EncodeCalls ==
  (IF pc \in {"encoded", "done"} /\ x.t = "int" THEN {<<x.v, y>>} ELSE {})
    \cup (IF pc = "done" /\ y.t = "int" THEN {<<y.v, z>>} ELSE {})

\* C27: encode_overpunch(n) is the decimal text of |n| // 10 followed by
\* the character of the positive row for a non-negative n, and of the
\* negative row for a negative n, at the units digit of |n|; also for
\* |n| < 10 and for a units digit of 0.
C27_EncodeValue ==
  \A call \in EncodeCalls :
    LET n == call[1]
        row == IF n >= 0 THEN PositiveRow ELSE NegativeRow
    IN  call[2] = PyStr(NatToStr(Abs(n) \div 10) \o <<row[(Abs(n) % 10) + 1]>>)

\* --------------------------------------------------- header: the machine
\* x is the text handed to NCPDPClaimHeader.parse, y the parsed header (or
\* the error), z the text NCPDPClaimHeader.serialize returns for y.
MaxHeaderExtra == 1

RxbinColumns == {<<"0", "2", "4", "3", "6", "8">>, <<"0", "2", "4", "3", "6", " ">>}
VersionColumns == {<<"D", "0">>, <<"5", "1">>, <<"Z", "Z">>}
TransactionCodeColumns == {<<"B", "1">>, <<"F", "3">>, <<"Z", "Z">>}
PcnColumns ==
  {<<" ", " ", " ", " ", " ", " ", " ", " ", " ", " ">>, <<"1", "2", "3", "4", "5", "6", "7", "8", "9", "0">>, <<"1", "2", " ", "3", "4", " ", " ", " ", " ", " ">>, <<" ", " ", "1", "2", " ", " ", " ", " ", " ", " ">>, <<"\t", " ", " ", " ", " ", " ", " ", " ", " ", " ">>,
   <<"P", "C", "N", "1", "2", "3", " ", " ", " ", " ">>}
TransactionCountColumns == {<<"1">>, <<"0">>}
QualifierColumns == {<<"0", "1">>, <<" ", "1">>, <<"1", " ">>}
ServiceProviderIdColumns ==
  {<<" ", " ", " ", " ", " ", " ", " ", " ", " ", " ", " ", " ", " ", " ", " ">>, <<"1", "7", "9", "0", "8", "8", "7", "0", "8", "1", " ", " ", " ", " ", " ">>, <<" ", " ", " ", " ", " ", "1", "7", "9", "0", "8", "8", "7", "0", "8", "1">>}
ServiceDateColumns == {<<"2", "0", "2", "3", "1", "1", "1", "0">>, <<"2", "0", "2", "3", "1", "3", "1", "0">>}
CertificationIdColumns == {<<" ", " ", " ", " ", " ", " ", " ", " ", " ", " ">>, <<"C", "E", "R", "T", "1", "2", "3", "4", "5", "6">>, <<" ", "C", "E", "R", "T", "1", "2", "3", "4", "5">>}

HeaderProduct(A, B, C, D, E, F, G, H, I) ==
  {a \o b \o c \o d \o e \o f \o g \o h \o i :
     a \in A, b \in B, c \in C, d \in D, e \in E, f \in F, g \in G, h \in H, i \in I}

\* every placement of the padded fields under valid codes, and every
\* combination of valid and invalid codes, counts and dates
HeaderTexts ==
  HeaderProduct({<<"0", "2", "4", "3", "6", "8">>}, {<<"D", "0">>, <<"5", "1">>},
                {<<"B", "1">>, <<"F", "3">>},
                PcnColumns, {<<"1">>}, QualifierColumns, ServiceProviderIdColumns,
                {<<"2", "0", "2", "3", "1", "1", "1", "0">>}, CertificationIdColumns)
    \cup HeaderProduct(RxbinColumns, VersionColumns, TransactionCodeColumns,
                       {Spaces(10)}, TransactionCountColumns, {<<"0", "1">>},
                       {Spaces(15), <<"1", "7", "9", "0", "8", "8", "7", "0", "8", "1">> \o Spaces(5)},
                       ServiceDateColumns, {Spaces(10)})

RECURSIVE Repeat(_, _)
Repeat(c, n) == IF n <= 0 THEN <<>> ELSE <<c>> \o Repeat(c, n - 1)

ShortLengths == {0, 9, 30, 55}

HeaderInputs ==
  {PyStr(h \o Repeat("X", k)) : h \in HeaderTexts, k \in 0..MaxHeaderExtra}
    \cup {PyStr(Slice(h, 0, k)) : h \in HeaderTexts, k \in ShortLengths}

InitHeader ==
  /\ pc = "start"
  /\ x \in HeaderInputs
  /\ y = Unset
  /\ z = Unset

HeaderParse ==
  /\ pc = "start"
  /\ x.t = "str"
  /\ y' = NCPDPClaimHeader_parse(x.v)
  /\ pc' = "parsed"
  /\ UNCHANGED <<x, z>>

HeaderSerialize ==
  /\ pc = "parsed"
  /\ y.t = "header"
  /\ z' = NCPDPClaimHeader_serialize(y.v)
  /\ pc' = "done"
  /\ UNCHANGED <<x, y>>

NextHeader == HeaderParse \/ HeaderSerialize

SpecHeader == InitHeader /\ [][NextHeader]_vars

\* ------------------------------------------------ header: properties
HeaderPositions ==
  <<RXBIN, VERSION, TRANSACTION_CODE, PCN, TRANSACTION_COUNT,
    SERVICE_PROVIDER_ID_QUAL, SERVICE_PROVIDER_ID, SERVICE_DATE, CERTIFICATION_ID>>

Columns(s, first, last) == Slice(s, first, last + 1)
RawField(s, pos) == Slice(s, pos.start, pos.start + pos.length)
Blank(s) == AllIn(s, Whitespace)

\* every field's columns are its value with ASCII spaces around it
OnlySpacePadding(s) ==
  \A i \in 1..Len(HeaderPositions) :
    LET r == RawField(s, HeaderPositions[i])
    IN  \E a, b \in 0..Len(r) : r = Spaces(a) \o Strip(r) \o Spaces(b)

\* every field's value sits where serialize puts it: spaces after the value
\* in the fields padded on the right, before it in the others
JustifiedAsWritten(s) ==
  \A i \in 1..Len(HeaderPositions) :
    LET pos == HeaderPositions[i]
        r == RawField(s, pos)
        gap == Spaces(Len(r) - Len(Strip(r)))
    IN  r = (IF pos.padding = "right" THEN Strip(r) \o gap ELSE gap \o Strip(r))

\* C3 as stated: serialize(parse(s)) = s for every accepted s of 56
\* characters padded with ASCII spaces on either side of a value.
C3_HeaderRoundTripEitherSide ==
  (pc = "done" /\ x.t = "str" /\ Len(x.v) = 56 /\ OnlySpacePadding(x.v)) => z = x

\* C3 as amended: serialize(parse(s)) = s for every accepted s of 56
\* characters whose padding spaces are on the side serialize pads each field.
C3_HeaderRoundTrip ==
  (pc = "done" /\ x.t = "str" /\ Len(x.v) = 56 /\ JustifiedAsWritten(x.v)) => z = x

C3_Witness ==
  /\ pc = "done"
  /\ x.t = "str"
  /\ Len(x.v) = 56
  /\ JustifiedAsWritten(x.v)
  /\ Columns(x.v, 21, 22) = <<" ", "1">>
  /\ Columns(x.v, 10, 19) = <<"1", "2", " ", "3", "4", " ", " ", " ", " ", " ">>
  /\ Columns(x.v, 46, 55) = <<" ", " ", " ", " ", " ", " ", " ", " ", " ", " ">>

\* C8: parse fails with the too-short error for every input of fewer than
\* 56 characters, whatever its content, and returns no header.
C8_ShortInputRejected ==
  (pc # "start" /\ x.t = "str" /\ Len(x.v) < 56) => y = Raise("ShortInput")

C8_Witness ==
  /\ pc = "parsed"
  /\ x.t = "str"
  /\ Len(x.v) = 55
  /\ Columns(x.v, 6, 7) = <<"Z", "Z">>
  /\ Columns(x.v, 0, 5) = <<"0", "2", "4", "3", "6", " ">>
  /\ y = Raise("ShortInput")

\* C9: on an input of at least 56 characters parse fails with UnknownCode
\* when the trimmed columns 6-7 are not D0 or 51 or the trimmed columns 8-9
\* are not a transaction code; a returned header holds members of both.
C9_HeaderEnumerations ==
  (pc # "start" /\ x.t = "str" /\ Len(x.v) >= 56) =>
    /\ (\/ Strip(Columns(x.v, 6, 7)) \notin {<<"D", "0">>, <<"5", "1">>}
        \/ Strip(Columns(x.v, 8, 9)) \notin TransactionCode)
         => y = Raise("UnknownCode")
    /\ y.t = "header" =>
         /\ y.v.version = PyStr(Strip(Columns(x.v, 6, 7)))
         /\ y.v.version.v \in {<<"D", "0">>, <<"5", "1">>}
         /\ y.v.transaction_code = PyStr(Strip(Columns(x.v, 8, 9)))
         /\ y.v.transaction_code.v \in TransactionCode

C9_Witness ==
  /\ pc = "parsed"
  /\ x.t = "str"
  /\ Len(x.v) >= 56
  /\ Columns(x.v, 6, 7) = <<"Z", "Z">>
  /\ Columns(x.v, 8, 9) = <<"F", "3">>
  /\ y = Raise("UnknownCode")

\* C10: parse stores pcn, service_provider_id and certification_id as
\* absent exactly when their columns are blank, never as an empty or blank
\* string, and serialize writes an absent one as 10, 15 and 10 spaces.
OptionalStored(value, raw) ==
  /\ value = PyNone <=> Blank(raw)
  /\ value # PyNone => (value.t = "str" /\ ~Blank(value.v))

C10_OptionalHeaderFields ==
  (pc # "start" /\ y.t = "header") =>
    /\ OptionalStored(y.v.pcn, Columns(x.v, 10, 19))
    /\ OptionalStored(y.v.service_provider_id, Columns(x.v, 23, 37))
    /\ OptionalStored(y.v.certification_id, Columns(x.v, 46, 55))
    /\ pc = "done" =>
         /\ z.t = "str"
         /\ y.v.pcn = PyNone => Columns(z.v, 10, 19) = Spaces(10)
         /\ y.v.service_provider_id = PyNone => Columns(z.v, 23, 37) = Spaces(15)
         /\ y.v.certification_id = PyNone => Columns(z.v, 46, 55) = Spaces(10)

C10_Witness ==
  /\ pc = "done"
  /\ y.t = "header"
  /\ y.v.pcn = PyNone
  /\ y.v.service_provider_id = PyNone
  /\ y.v.certification_id # PyNone
  /\ Columns(z.v, 10, 19) = Spaces(10)

\* C25: parse refuses, with the format error, every header whose PCN
\* columns 10-19 are not blank and hold a character that is neither a
\* space nor a decimal digit.
C25_PcnShape ==
  (/\ pc # "start"
   /\ x.t = "str"
   /\ Len(x.v) >= 56
   /\ ~Blank(Columns(x.v, 10, 19))
   /\ ~AllIn(Columns(x.v, 10, 19), Digits \cup {" "}))
    => (y.t = "err" /\ "InvalidFormat" \in y.v)

\* ----------------------------------------------------- claim: the machine
\* x is the caller's input: the text of a wire message, or a ClaimModel.
\* y is what the first call returns, z what the second call returns on y.

\* wire text, written piece by piece
Piece(key, text) == key \o text
RawSegment(segment_id, pieces) ==
  <<FIELD_SEPARATOR>> \o Join(FIELD_SEPARATOR, <<segment_id>> \o pieces)

WireHeaders ==
  {<<"0", "2", "4", "3", "6", "8", "D", "0", "B", "1", " ", " ", " ", " ", " ", " ", " ", " ", " ", " ", "1", "0", "1", "1", "7", "9", "0", "8", "8", "7", "0", "8", "1", " ", " ", " ", " ", " ", "2", "0", "2", "3", "1", "1", "1", "0", " ", " ", " ", " ", " ", " ", " ", " ", " ", " ">>,
   <<"0", "2", "4", "3", "6", "8", "D", "0", "B", "1", " ", " ", " ", " ", " ", " ", " ", " ", " ", " ", "1", " ", "1", "1", "7", "9", "0", "8", "8", "7", "0", "8", "1", " ", " ", " ", " ", " ", "2", "0", "2", "3", "1", "1", "1", "0", " ", " ", " ", " ", " ", " ", " ", " ", " ", " ">>,
   <<"0", "2", "4", "3", "6", "8", "5", "1", "B", "2", " ", " ", "1", "2", " ", " ", " ", " ", " ", " ", "1", "0", "1", "1", "7", "9", "0", "8", "8", "7", "0", "8", "1", " ", " ", " ", " ", " ", "2", "0", "2", "3", "1", "1", "1", "0", "C", "E", "R", "T", "1", " ", " ", " ", " ", " ">>}

WireInsurance ==
  {RawSegment(<<"A", "M", "0", "4">>, <<Piece(<<"C", "2">>, <<"I", "C", "N", "1">>), Piece(<<"C", "1">>, <<"J", "O", "H", "N">>),
                          Piece(<<"C", "3">>, <<"0", "0", "1">>), Piece(<<"A", "6">>, <<"C", "A", "R", "D", "1">>),
                          Piece(<<"A", "7">>, last)>>) :
     last \in {<<"D", "O", "E">>, <<"D", "O", "E", " ">>, <<>>}}

WirePatient ==
  {RawSegment(<<"A", "M", "0", "1">>, <<Piece(<<"C", "4">>, dob), Piece(<<"C", "5">>, <<"1">>),
                          Piece(<<"C", "A">>, <<"S", "M", "I", "T", "H">>), Piece(<<"C", "B">>, <<"J", "A", "N", "E">>),
                          Piece(<<"C", "P">>, <<"1", "2", "3", "4", "5">>)>>) \o <<GROUP_SEPARATOR>> :
     dob \in {<<"1", "9", "8", "0", "0", "1", "1", "5">>, <<"1", "9", "8", "0", "1", "1", "5">>, <<"0", "9", "9", "9", "0", "1", "0", "1">>}}

WireClaim ==
  {RawSegment(<<"A", "M", "0", "7">>, <<Piece(<<"E", "M">>, em), Piece(<<"D", "2">>, <<"1", "2", "3", "4", "5", "6", "7", "8", "9", "0", "1", "5">>),
                          Piece(<<"E", "1">>, <<"0", "3">>), Piece(<<"D", "7">>, <<"A", "1">>),
                          Piece(<<"S", "E">>, <<"A", "B">>), Piece(<<"E", "7">>, <<"1", "0">>),
                          Piece(<<"D", "3">>, <<"0">>), Piece(<<"D", "5">>, <<"3", "0">>),
                          Piece(<<"D", "6">>, <<"0">>), Piece(<<"D", "8">>, <<"0">>),
                          Piece(<<"D", "E">>, <<"2", "0", "2", "3", "1", "1", "0", "1">>), Piece(<<"D", "F">>, <<"0">>),
                          Piece(<<"D", "J">>, <<"1">>), Piece(<<"D", "T">>, <<"1">>),
                          Piece(<<"E", "B">>, eb)>>) :
     em \in {<<"0", "1">>, <<"1">>}, eb \in {<<"2">>, <<>>}}

WirePricing ==
  {RawSegment(<<"A", "M", "1", "1">>, <<Piece(<<"D", "9">>, <<"1", "0", "{">>), Piece(<<"D", "C">>, <<"5", "A">>),
                          Piece(<<"E", "3">>, <<"0", "}">>), Piece(<<"D", "Q">>, <<"1", "5", "A">>),
                          Piece(<<"D", "U">>, <<"0", "{">>)>>)}

WirePrescriber ==
  RawSegment(<<"A", "M", "0", "3">>, <<Piece(<<"E", "Z">>, <<"0", "1">>), Piece(<<"D", "B">>, <<"P", "1">>)>>)
WirePharmacyProvider == RawSegment(<<"A", "M", "0", "6">>, <<Piece(<<"D", "Z">>, <<"G", " ", "1">>)>>)
WireClinical ==
  RawSegment(<<"A", "M", "0", "8">>, <<Piece(<<"7", "E">>, <<"1">>), Piece(<<"E", "5">>, <<"0", "1">>)>>)

\* the optional segments that are present, in canonical order
OptionalWires(present) ==
  (IF "prescriber" \in present THEN <<WirePrescriber>> ELSE <<>>)
    \o (IF "pharmacy_provider" \in present THEN <<WirePharmacyProvider>> ELSE <<>>)
    \o (IF "clinical" \in present THEN <<WireClinical>> ELSE <<>>)

OptionalNames == {"prescriber", "pharmacy_provider", "clinical"}

WireInputs ==
  {PyStr(Join(SEGMENT_SEPARATOR, <<h, i, p, c, r>> \o OptionalWires(present))) :
     h \in WireHeaders, i \in WireInsurance, p \in WirePatient, c \in WireClaim,
     r \in WirePricing, present \in SUBSET OptionalNames}

\* models, built by the constructors
ModelHeaders ==
  {NCPDPClaimHeader([rxbin |-> PyStr(<<"0", "2", "4", "3", "6", "8">>), version |-> PyStr(<<"D", "0">>),
                     transaction_code |-> PyStr(<<"B", "1">>), pcn |-> pcn,
                     transaction_count |-> PyStr(<<"1">>),
                     service_provider_id_qual |-> PyStr(<<"0", "1">>),
                     service_provider_id |-> PyStr(<<"1", "7", "9", "0", "8", "8", "7", "0", "8", "1">>),
                     service_date |-> PyStr(<<"2", "0", "2", "3", "1", "1", "1", "0">>),
                     certification_id |-> PyNone]) :
     pcn \in {PyNone, PyStr(<<"1", "2", "3">>)}}

ModelInsurance ==
  {Segment(InsuranceSegment,
           [first_name |-> PyStr(<<"J", "O", "H", "N">>), last_name |-> PyStr(<<"D", "O", "E">>),
            person_code |-> PyStr(<<"0", "0", "1">>), cardholder_id |-> PyStr(<<"C", "A", "R", "D", "1">>),
            internal_control_number |-> PyStr(<<"I", "C", "N", "1">>)])}

ModelPatient ==
  {Segment(PatientSegment,
           [dob |-> PyDatetime(1980, 1, 15, second), patient_gender |-> PyStr(<<"1">>),
            last_name |-> PyStr(<<"S", "M", "I", "T", "H">>), first_name |-> PyStr(<<"J", "A", "N", "E">>),
            patient_zip |-> PyStr(<<"1", "2", "3", "4", "5">>)]) :
     second \in {0, 3600}}

ClaimRequired ==
  [daw_product_selection_code |-> PyStr(<<"0">>),
   date_prescription_written |-> PyStr(<<"2", "0", "2", "3", "1", "1", "0", "1">>),
   days_supply |-> PyStr(<<"3", "0">>),
   prescription_origin_code |-> PyStr(<<"1">>),
   procedure_modifiers |-> PyStr(<<"A", "B">>),
   prescription_service_reference_number |-> PyStr(<<"1", "2", "3", "4", "5", "6", "7", "8", "9", "0", "1", "5">>),
   prescription_service_reference_number_qualifier |-> PyStr(<<"0", "1">>),
   product_service_id |-> PyStr(<<"A", "1">>),
   product_service_id_qualifier |-> PyStr(<<"0", "3">>),
   quantity_dispensed |-> PyStr(<<"1", "0">>),
   refills_authorized |-> PyStr(<<"0">>),
   fill_number |-> PyStr(<<"0">>),
   number_authorized_refills |-> PyStr(<<"0">>)]

\* the keyword arguments base, and those of extra whose value is not None
WithGiven(base, extra) ==
  LET given == {n \in DOMAIN extra : extra[n].t # "none"}
  IN  [n \in DOMAIN base \cup given |-> IF n \in given THEN extra[n] ELSE base[n]]

ModelClaim ==
  {Segment(ClaimSegment,
           WithGiven(ClaimRequired,
                     [special_packaging_indicator |-> dt, other_coverage_code |-> eb])) :
     dt \in {PyNone, PyStr(<<"1">>)}, eb \in {PyNone, PyStr(<<"2">>)}}

ModelPricing ==
  {Segment(PricingSegment,
           WithGiven([ingredient_cost_submitted |-> PyStr(<<"1", "0", "{">>),
                      dispensing_fee_submitted |-> PyStr(<<"5", "A">>),
                      gross_amount_due |-> PyStr(<<"1", "5", "A">>),
                      other_amount_claimed |-> PyStr(<<"0", "{">>)],
                     [professional_service_fee_submitted |-> e3])) :
     e3 \in {PyNone, PyStr(<<"0", "}">>)}}

ModelOptional ==
  [prescriber |-> Segment(PrescriberSegment,
                          [prescriber_id_qualifier |-> PyStr(<<"0", "1">>),
                           prescriber_id |-> PyStr(<<"P", "1">>)]),
   pharmacy_provider |-> Segment(PharmacyProviderSegment, [group_id |-> PyStr(<<"G", " ", "1">>)]),
   clinical |-> Segment(ClinicalSegment,
                        [other_payer_coverage_type |-> PyStr(<<"1">>),
                         other_payer_id_qualifier |-> PyStr(<<"0", "1">>)])]

ModelInputs ==
  {ClaimModel([n \in {"header", "insurance", "patient", "claim", "pricing"} \cup present |->
                 CASE n = "header" -> h
                   [] n = "insurance" -> i
                   [] n = "patient" -> p
                   [] n = "claim" -> c
                   [] n = "pricing" -> r
                   [] OTHER -> ModelOptional[n]]) :
     h \in ModelHeaders, i \in ModelInsurance, p \in ModelPatient, c \in ModelClaim,
     r \in ModelPricing, present \in SUBSET OptionalNames}

\* a raw segment as from_file hands it on: identifier and pieces joined by
\* the field-separator
Raw(segment_id, pieces) == Join(FIELD_SEPARATOR, <<segment_id>> \o pieces)

\* list without its k-th element; list with item put after its k-th element
Without(list, k) == SubSeq(list, 1, k - 1) \o SubSeq(list, k + 1, Len(list))
PutAfter(list, k, item) == SubSeq(list, 1, k) \o <<item>> \o SubSeq(list, k + 1, Len(list))

InsurancePieces == <<<<"C", "2", "I", "C", "N", "1">>, <<"C", "1", "J", "O", "H", "N">>, <<"C", "3", "0", "0", "1">>, <<"A", "6", "C", "A", "R", "D", "1">>, <<"A", "7", "D", "O", "E">>>>

ClaimPieces(em, e1) ==
  <<<<"E", "M">> \o em, <<"D", "2", "1", "2", "3", "4", "5", "6", "7", "8", "9", "0", "1", "5">>, <<"E", "1">> \o e1, <<"D", "7", "A", "1">>, <<"S", "E", "A", "B">>, <<"E", "7", "1", "0">>, <<"D", "3", "0">>,
    <<"D", "5", "3", "0">>, <<"D", "6", "0">>, <<"D", "8", "0">>, <<"D", "E", "2", "0", "2", "3", "1", "1", "0", "1">>, <<"D", "F", "0">>, <<"D", "J", "1">>>>

\* wire text that holds more than the parser knows: pieces with unknown
\* keys inside the Insurance segment, and segments with unknown identifiers
\* (or an empty piece) anywhere after the header
ForwardInsurance ==
  {RawSegment(<<"A", "M", "0", "4">>, InsurancePieces)}
    \cup {RawSegment(<<"A", "M", "0", "4">>, PutAfter(InsurancePieces, k, e)) :
            k \in {0, 5}, e \in {<<"Z", "Z", "9">>, <<"C">>}}

UnknownSegments == {RawSegment(<<"A", "M", "9", "9">>, <<<<"C", "1", "X">>>>), RawSegment(<<"A", "M", "2", "1">>, <<>>), <<>>}

ForwardBase(i) ==
  <<<<"0", "2", "4", "3", "6", "8", "D", "0", "B", "1", " ", " ", " ", " ", " ", " ", " ", " ", " ", " ", "1", "0", "1", "1", "7", "9", "0", "8", "8", "7", "0", "8", "1", " ", " ", " ", " ", " ", "2", "0", "2", "3", "1", "1", "1", "0", " ", " ", " ", " ", " ", " ", " ", " ", " ", " ">>, i,
    RawSegment(<<"A", "M", "0", "1">>, <<<<"C", "4", "1", "9", "8", "0", "0", "1", "1", "5">>, <<"C", "5", "1">>, <<"C", "A", "S", "M", "I", "T", "H">>, <<"C", "B", "J", "A", "N", "E">>, <<"C", "P", "1", "2", "3", "4", "5">>>>)
      \o <<GROUP_SEPARATOR>>,
    RawSegment(<<"A", "M", "0", "7">>, ClaimPieces(<<"0", "1">>, <<"0", "3">>)),
    RawSegment(<<"A", "M", "1", "1">>, <<<<"D", "9", "1", "0", "{">>, <<"D", "C", "5", "A">>, <<"D", "Q", "1", "5", "A">>, <<"D", "U", "0", "{">>>>)>>

ForwardWires ==
  {PyStr(Join(SEGMENT_SEPARATOR, ForwardBase(i))) : i \in ForwardInsurance}
    \cup {PyStr(Join(SEGMENT_SEPARATOR, PutAfter(ForwardBase(i), k, u))) :
            i \in ForwardInsurance, k \in 1..5, u \in UnknownSegments}
    \cup {PyStr(Join(SEGMENT_SEPARATOR, PutAfter(Without(ForwardBase(i), 5), 4, u))) :
            i \in ForwardInsurance, u \in UnknownSegments}

InitClaim ==
  /\ pc = "start"
  /\ x \in WireInputs \cup ForwardWires \cup {m \in ModelInputs : m.t = "claim"}
  /\ y = Unset
  /\ z = Unset

\* the text at hand is split and parsed into a ClaimModel
ClaimParse ==
  /\ pc \in {"start", "serialized"}
  /\ (IF pc = "start" THEN x ELSE y).t = "str"
  /\ IF pc = "start"
       THEN /\ y' = ClaimModel_from_file(x.v)
            /\ pc' = "parsed"
            /\ z' = z
       ELSE /\ z' = ClaimModel_from_file(y.v)
            /\ pc' = "done"
            /\ y' = y
  /\ x' = x

\* ClaimModel.serialize is called on the model at hand
ClaimSerialize ==
  /\ pc \in {"start", "parsed"}
  /\ (IF pc = "start" THEN x ELSE y).t = "claim"
  /\ IF pc = "start"
       THEN /\ y' = ClaimModel_serialize(x.v)
            /\ pc' = "serialized"
            /\ z' = z
       ELSE /\ z' = ClaimModel_serialize(y.v)
            /\ pc' = "done"
            /\ y' = y
  /\ x' = x

NextClaim == ClaimParse \/ ClaimSerialize

SpecClaim == InitClaim /\ [][NextClaim]_vars

\* ------------------------------------------------------ claim: properties
RequiredIds == <<<<"A", "M", "0", "4">>, <<"A", "M", "0", "1">>, <<"A", "M", "0", "7">>, <<"A", "M", "1", "1">>>>
OptionalIds == <<<<"A", "M", "0", "3">>, <<"A", "M", "0", "6">>, <<"A", "M", "0", "8">>>>

\* the segment-separated pieces after the header
RawSegments(s) == Tail(Split(s, SEGMENT_SEPARATOR))

\* a raw piece without the field-separator it starts with and without the
\* group-separator that ends the Patient piece
Body(piece) ==
  LET rest == Tail(piece)
  IN  IF rest # <<>> /\ rest[Len(rest)] = GROUP_SEPARATOR
        THEN SubSeq(rest, 1, Len(rest) - 1) ELSE rest

IdOf(piece) == Head(Split(Body(piece), FIELD_SEPARATOR))
PiecesOf(piece) == Tail(Split(Body(piece), FIELD_SEPARATOR))
ClassOfId(id) ==
  segment_classes[CHOOSE i \in 1..Len(segment_classes) : segment_classes[i].segment_id = id]

\* the text after key in the piece of a raw segment that starts with key
TextOf(piece, key) ==
  LET ps == PiecesOf(piece)
      i == CHOOSE k \in 1..Len(ps) : Slice(ps[k], 0, 2) = key
  IN  Slice(ps[i], 2, Len(ps[i]))

\* ids is RequiredIds followed by some of OptionalIds, in their order
CanonicalOrder(ids) ==
  /\ Len(ids) >= 4
  /\ SubSeq(ids, 1, 4) = RequiredIds
  /\ \E present \in SUBSET (1..3) :
       /\ Len(ids) = 4 + Cardinality(present)
       /\ \A k \in 1..(Len(ids) - 4) :
            \E i \in present :
              /\ ids[4 + k] = OptionalIds[i]
              /\ Cardinality({j \in present : j <= i}) = k

\* a 56-character header the header parser accepts, then the segments in
\* canonical order, each starting with a field-separator and carrying its
\* keys once each in the order serialize writes them, the Patient piece
\* (and no other) ending in a group-separator
WellFormedWire(s) ==
  LET parts == Split(s, SEGMENT_SEPARATOR)
      segs == Tail(parts)
  IN  /\ Len(Head(parts)) = 56
      /\ NCPDPClaimHeader_parse(Head(parts)).t = "header"
      /\ \A i \in 1..Len(segs) :
           /\ Len(segs[i]) >= 5
           /\ Head(segs[i]) = FIELD_SEPARATOR
           /\ (segs[i][Len(segs[i])] = GROUP_SEPARATOR) <=> (i = 2)
           /\ \E c \in 1..Len(segment_classes) : segment_classes[c].segment_id = IdOf(segs[i])
      /\ CanonicalOrder([i \in 1..Len(segs) |-> IdOf(segs[i])])
      /\ \A i \in 1..Len(segs) :
           LET keys == ClassOfId(IdOf(segs[i])).pieces
               ps == PiecesOf(segs[i])
           IN  /\ Len(ps) = Len(keys)
               /\ \A k \in 1..Len(ps) : Slice(ps[k], 0, 2) = keys[k][1]

\* every value is written the way serialize writes it: header padding on
\* the side pad puts it, EM as two characters, C4 as eight digits of a year
\* from 1000 on, and no segment text ending in whitespace
SerializerForm(s) ==
  LET parts == Split(s, SEGMENT_SEPARATOR)
      segs == Tail(parts)
  IN  /\ JustifiedAsWritten(Head(parts))
      /\ \A i \in 1..Len(segs) : RStrip(Body(segs[i])) = Body(segs[i])
      /\ Len(TextOf(segs[3], <<"E", "M">>)) = 2
      /\ MatchDigits(TextOf(segs[2], <<"C", "4">>), 8)
      /\ DigitsToNat(SubSeq(TextOf(segs[2], <<"C", "4">>), 1, 4)) >= 1000

\* C1 as stated: serialize returns x for every well-formed wire message x
\* that is split, parsed and assembled.
C1_WireRoundTripAnyValues ==
  (pc = "done" /\ x.t = "str" /\ WellFormedWire(x.v)) => z = x

\* C1 as amended: serialize returns x for every well-formed wire message x
\* that parses and whose values are in the form serialize writes.
C1_WireRoundTrip ==
  (pc # "start" /\ x.t = "str" /\ WellFormedWire(x.v) /\ SerializerForm(x.v) /\ y.t = "claim")
    => (pc = "done" => z = x)

C1_Witness ==
  /\ pc = "done"
  /\ x.t = "str"
  /\ WellFormedWire(x.v)
  /\ SerializerForm(x.v)
  /\ Len(RawSegments(x.v)) = 6
  /\ Columns(x.v, 21, 22) = <<" ", "1">>
  /\ TextOf(RawSegments(x.v)[3], <<"E", "B">>) = <<>>
  /\ z = x

\* C2: for every ClaimModel m accepted by validation, parsing
\* ClaimModel.serialize(m) succeeds and yields a model equal to m.
C2_ModelRoundTrip ==
  (pc = "done" /\ x.t = "claim") => z = x

\* C28: for every wire message x that parses, the serialized model
\* y = serialize(parse(x)) parses as well, into the model x parsed into,
\* and serializing that model gives y again.
C28_CanonicalizationIdempotent ==
  (pc = "done" /\ x.t = "str" /\ y.t = "claim" /\ z.t = "str") =>
    LET again == ClaimModel_from_file(z.v)
    IN  /\ again = y
        /\ ClaimModel_serialize(again.v) = z

\* ------------------------------------------- header model: the machine
\* x holds the keyword arguments given to NCPDPClaimHeader(...), y the
\* validated header (or the validation error), z what serialize returns.
HeaderArguments ==
  {[rxbin |-> PyStr(rxbin), version |-> PyStr(version),
    transaction_code |-> PyStr(<<"B", "1">>), pcn |-> pcn,
    transaction_count |-> PyStr(<<"1">>),
    service_provider_id_qual |-> PyStr(qual),
    service_provider_id |-> id,
    service_date |-> PyStr(<<"2", "0", "2", "3", "1", "1", "1", "0">>),
    certification_id |-> cert] :
     rxbin \in {<<"0", "2", "4", "3", "6", "8">>, <<"0", "2", "4", "3", "6">>, <<"0", "2", "4", "3", "6", "8", "9">>},
     version \in {<<"D", "0">>, <<"5", "1">>, <<"D">>},
     pcn \in {PyNone, PyStr(<<>>), PyStr(<<"1", "2", "3">>), PyStr(<<"1", "2", "3", "4", "5", "6", "7", "8", "9", "0">>),
              PyStr(<<"1", "2", "3", "4", "5", "6", "7", "8", "9", "0", "1">>)},
     qual \in {<<"1">>, <<"0", "1">>, <<"1", "2", "3">>, <<>>},
     id \in {PyNone, PyStr(<<"1", "7", "9", "0", "8", "8", "7", "0", "8", "1">>), PyStr(<<"1", "2", "3", "4", "5", "6", "7", "8", "9", "0", "1", "2", "3", "4", "5">>),
             PyStr(<<"1", "2", "3", "4", "5", "6", "7", "8", "9", "0", "1", "2", "3", "4", "5", "6">>)},
     cert \in {PyNone, PyStr(<<"C", "E", "R", "T", "1", "2", "3", "4", "5", "6">>), PyStr(<<"C", "E", "R", "T", "1", "2", "3", "4", "5", "6", "7">>)}}

InitHeaderModel ==
  /\ pc = "start"
  /\ x \in HeaderArguments
  /\ y = Unset
  /\ z = Unset

\* NCPDPClaimHeader(**x): model validation
HeaderConstruct ==
  /\ pc = "start"
  /\ y' = NCPDPClaimHeader(x)
  /\ pc' = "constructed"
  /\ UNCHANGED <<x, z>>

\* serialize is called on the validated header
HeaderModelSerialize ==
  /\ pc = "constructed"
  /\ y.t = "header"
  /\ z' = NCPDPClaimHeader_serialize(y.v)
  /\ pc' = "done"
  /\ UNCHANGED <<x, y>>

NextHeaderModel == HeaderConstruct \/ HeaderModelSerialize

SpecHeaderModel == InitHeaderModel /\ [][NextHeaderModel]_vars

\* C11: for every header that model validation accepts, serialize succeeds
\* and returns a string of exactly 56 characters.
C11_HeaderWidth ==
  (pc = "done" /\ y.t = "header") => (z.t = "str" /\ Len(z.v) = 56)

\* a validated header with an absent pcn, a one-digit qualifier and a
\* full-width service_provider_id has been serialized
C11_Witness ==
  /\ pc = "done"
  /\ y.t = "header"
  /\ y.v.pcn = PyNone
  /\ Len(y.v.service_provider_id_qual.v) = 1
  /\ y.v.service_provider_id.t = "str"
  /\ Len(y.v.service_provider_id.v) = 15
  /\ z.t = "str"
  /\ Len(z.v) = 56

\* ------------------------------------------- header model: padding sides
HeaderFieldNames ==
  <<"rxbin", "version", "transaction_code", "pcn", "transaction_count",
    "service_provider_id_qual", "service_provider_id", "service_date", "certification_id">>

\* the text of a header attribute, an absent one being the empty text
TextOfField(header, name) == IF header[name].t = "none" THEN <<>> ELSE header[name].v

\* the columns of every field named in fields hold its value first and
\* the spaces after it
ValueThenSpaces(header, text, fields) ==
  \A i \in 1..Len(HeaderFieldNames) :
    HeaderFieldNames[i] \in fields =>
      LET val == TextOfField(header, HeaderFieldNames[i])
          r == RawField(text, HeaderPositions[i])
      IN  r = val \o Spaces(Len(r) - Len(val))

\* the columns of every field named in fields hold the spaces first and
\* its value after them
SpacesThenValue(header, text, fields) ==
  \A i \in 1..Len(HeaderFieldNames) :
    HeaderFieldNames[i] \in fields =>
      LET val == TextOfField(header, HeaderFieldNames[i])
          r == RawField(text, HeaderPositions[i])
      IN  r = Spaces(Len(r) - Len(val)) \o val

\* C23, as stated: serialize writes each of the nine header fields with
\* its value at the left of its columns and the spaces on the right, so a
\* one-digit qualifier d is written d, space.
C23_AllFieldsRightPadded ==
  (pc = "done" /\ y.t = "header" /\ z.t = "str") =>
    ValueThenSpaces(y.v, z.v, {HeaderFieldNames[i] : i \in 1..9})

\* C23: serialize writes rxbin, pcn, service_provider_id and
\* certification_id with the value at the left of the columns and the
\* spaces on the right, and version, transaction_code, transaction_count,
\* service_provider_id_qual and service_date with the spaces on the left
\* and the value at the right, so a one-digit qualifier d is written
\* space, d.
C23_PaddingSides ==
  (pc = "done" /\ y.t = "header" /\ z.t = "str") =>
    /\ ValueThenSpaces(y.v, z.v, {"rxbin", "pcn", "service_provider_id", "certification_id"})
    /\ SpacesThenValue(y.v, z.v, {"version", "transaction_code", "transaction_count",
                                  "service_provider_id_qual", "service_date"})
    /\ Len(y.v.service_provider_id_qual.v) = 1 =>
         Columns(z.v, 21, 22) = <<" ">> \o y.v.service_provider_id_qual.v

\* a header with a one-digit qualifier and a three-character pcn has been
\* serialized
C23_Witness ==
  /\ pc = "done"
  /\ y.t = "header"
  /\ y.v.service_provider_id_qual.v = <<"1">>
  /\ y.v.pcn = PyStr(<<"1", "2", "3">>)
  /\ Columns(z.v, 21, 22) = <<" ", "1">>
  /\ Columns(z.v, 10, 19) = <<"1", "2", "3", " ", " ", " ", " ", " ", " ", " ">>

\* --------------------------------------------------- segment: the machine
\* x is the raw segment text handed to parse_segment, y what parse_segment
\* returns for it, z what it returns for the trimmed text (the call that
\* ClaimModel.from_file makes).

\* pieces that are not of the Insurance variant, and one that repeats a key
ExtraPieces == {<<"Z", "Z", "9">>, <<>>, <<"C">>, <<"c", "1", "j", "a", "n", "e">>, <<"C", "4">>, <<"C", "1", "J", "A", "N", "E">>}

InsuranceBodies ==
  {Raw(<<"A", "M", "0", "4">>, InsurancePieces), <<"A", "M", "0", "4">>}
    \cup {Raw(<<"A", "M", "0", "4">>, Without(InsurancePieces, k)) : k \in 1..5}
    \cup {Raw(<<"A", "M", "0", "4">>, PutAfter(InsurancePieces, k, e)) : k \in {0, 5}, e \in ExtraPieces}
    \cup {Raw(<<"A", "M", "0", "4">>, PutAfter(InsurancePieces, 2, <<"Z", "Z", "9">>))}
    \cup {Raw(<<"A", "M", "0", "4">>, PutAfter(Without(InsurancePieces, 4), 1, <<"Z", "Z", "9">>))}

PatientPieces(dob, gender) ==
  <<<<"C", "4">> \o dob, <<"C", "5">> \o gender, <<"C", "A", "S", "M", "I", "T", "H">>, <<"C", "B", "J", "A", "N", "E">>, <<"C", "P", "1", "2", "3", "4", "5">>>>

PatientBodies ==
  {Raw(<<"A", "M", "0", "1">>, PatientPieces(<<"1", "9", "8", "0", "0", "1", "1", "5">>, gender)) :
     gender \in {<<"1">>, <<"0">>, <<"2">>, <<"3">>, <<"0", "1">>, <<"M">>, <<>>}}
    \cup {Raw(<<"A", "M", "0", "1">>, PatientPieces(dob, <<"1">>)) :
            dob \in {<<"1", "9", "8", "0", "1", "1", "5">>, <<"1", "9", "8", "0", "1", "3", "1", "5">>}}
    \cup {Raw(<<"A", "M", "0", "1">>, Without(PatientPieces(<<"1", "9", "8", "0", "0", "1", "1", "5">>, <<"1">>), 2)),
          Raw(<<"A", "M", "0", "1">>, PatientPieces(<<"1", "9", "8", "0", "0", "1", "1", "5">>, <<"1">>)
                                        \o <<<<"C", "4", "1", "9", "9", "0", "0", "2", "0", "2">>>>)}

ClaimBodies ==
  {Raw(<<"A", "M", "0", "7">>, ClaimPieces(em, <<"0", "3">>)) :
     em \in {<<"0", "1">>, <<"0", "3">>, <<"1">>, <<"3">>, <<"4">>, <<"0">>, <<"0", "4">>, <<"0", "0", "1">>, <<>>, <<" ", "1">>, <<"R", "X">>}}
    \cup {Raw(<<"A", "M", "0", "7">>, ClaimPieces(<<"0", "2">>, e1)) : e1 \in {<<"9", "9">>, <<"0", "5">>, <<"3">>, <<>>}}
    \cup {Raw(<<"A", "M", "0", "7">>, ClaimPieces(<<"0", "1">>, <<"0", "3">>) \o <<<<"D", "T">> \o dt>>) :
            dt \in {<<"0">>, <<"8">>, <<"9">>, <<"0", "1">>, <<>>}}
    \cup {Raw(<<"A", "M", "0", "7">>, ClaimPieces(<<"0", "1">>, <<"0", "3">>) \o <<<<"E", "B", "2">>>>),
          Raw(<<"A", "M", "0", "7">>, ClaimPieces(<<"0", "1">>, <<"0", "3">>) \o <<<<"D", "T", "1">>, <<"E", "B">>>>),
          Raw(<<"A", "M", "0", "7">>, Without(ClaimPieces(<<"0", "1">>, <<"0", "3">>), 2)),
          Raw(<<"A", "M", "0", "7">>, Without(ClaimPieces(<<"0", "1">>, <<"0", "3">>), 1) \o <<<<"D", "T", "1">>>>),
          Raw(<<"A", "M", "0", "7">>, ClaimPieces(<<"0", "1">>, <<"0", "3">>) \o <<<<"E", "M", "1">>>>)}

PricingBodies ==
  {Raw(<<"A", "M", "1", "1">>, <<<<"D", "9", "1", "0", "{">>, <<"D", "C", "5", "A">>, <<"D", "Q", "1", "5", "A">>, <<"D", "U", "0", "{">>>> \o e3) :
     e3 \in {<<>>, <<<<"E", "3", "0", "}">>>>, <<<<"E", "3", "N", "o", "n", "e">>>>, <<<<"E", "3">>>>}}
    \cup {Raw(<<"A", "M", "1", "1">>, <<<<"D", "C", "5", "A">>, <<"E", "3", "0", "}">>, <<"D", "Q", "1", "5", "A">>, <<"D", "U", "0", "{">>>>),
          Raw(<<"A", "M", "1", "1">>, <<<<"D", "9", "1", "0">>, <<"D", "C", "5", "A">>, <<"D", "Q", "1", "5", "A">>>>)}

OtherBodies ==
  {Raw(<<"A", "M", "0", "3">>, <<<<"E", "Z", "0", "1">>, <<"D", "B", "P", "1">>>>), Raw(<<"A", "M", "0", "3">>, <<<<"D", "B", "P", "1">>>>),
   Raw(<<"A", "M", "0", "6">>, <<<<"D", "Z", "G", " ", "1">>>>), Raw(<<"A", "M", "0", "6">>, <<<<"X", "X", "1">>>>),
   Raw(<<"A", "M", "0", "8">>, <<<<"7", "E", "1">>, <<"E", "5", "0", "1">>>>), Raw(<<"A", "M", "0", "8">>, <<<<"E", "5", "0", "1">>, <<"7", "E", "1">>, <<"7", "E", "2">>>>),
   Raw(<<"A", "M", "9", "9">>, <<<<"C", "1", "J", "O", "H", "N">>>>), Raw(<<"a", "m", "0", "4">>, InsurancePieces), Raw(<<"A", "M", "0">>, InsurancePieces),
   Raw(<<"A", "M", "0", "4", " ">>, InsurancePieces), <<"A", "M", "1", "3">>, <<>>}

SegmentBodies ==
  InsuranceBodies \cup PatientBodies \cup ClaimBodies \cup PricingBodies \cup OtherBodies

\* the text as it stands between two segment-separators: bare, behind the
\* field-separator that serialize prepends, and followed by padding or by
\* the group-separator
SegmentInputs ==
  {PyStr(body) : body \in SegmentBodies}
    \cup {PyStr(<<FIELD_SEPARATOR>> \o body) : body \in SegmentBodies}
    \cup {PyStr(body \o <<" ">>) : body \in SegmentBodies}
    \cup {PyStr(<<FIELD_SEPARATOR>> \o body \o <<GROUP_SEPARATOR>>) : body \in SegmentBodies}
    \cup {PyStr(<<"A", "M", "0", "4", GROUP_SEPARATOR>>)}

InitSegment ==
  /\ pc = "start"
  /\ x \in SegmentInputs
  /\ y = Unset
  /\ z = Unset

\* parse_segment(x)
SegmentParse ==
  /\ pc = "start"
  /\ y' = parse_segment(x.v)
  /\ pc' = "parsed"
  /\ UNCHANGED <<x, z>>

\* parse_segment(x.strip())
SegmentParseTrimmed ==
  /\ pc = "parsed"
  /\ z' = parse_segment(Strip(x.v))
  /\ pc' = "done"
  /\ UNCHANGED <<x, y>>

NextSegment == SegmentParse \/ SegmentParseTrimmed

SpecSegment == InitSegment /\ [][NextSegment]_vars

\* ------------------------------------------------- segment: properties
MaxPermuted == 5

SegmentIdOf(r) == Head(Split(r, FIELD_SEPARATOR))
SegmentPieces(r) == Tail(Split(r, FIELD_SEPARATOR))

Recognized(r) ==
  \E c \in 1..Len(segment_classes) : segment_classes[c].segment_id = SegmentIdOf(r)

\* the variant of a recognized raw segment, and the keys of its mapping
VariantOf(r) == ClassOfId(SegmentIdOf(r))
KeysOf(class) == {class.key_mapping[i][1] : i \in 1..Len(class.key_mapping)}
AttributeOf(class, key) == DictGet(class.key_mapping, key)

KeyOfPiece(piece) == Slice(piece, 0, 2)
HasPiece(r, key) == \E i \in 1..Len(SegmentPieces(r)) : KeyOfPiece(SegmentPieces(r)[i]) = key

\* the text after key on the last piece of r that starts with key
LastValue(r, key) ==
  LET ps == SegmentPieces(r)
      i == CHOOSE k \in 1..Len(ps) :
             /\ KeyOfPiece(ps[k]) = key
             /\ \A j \in (k + 1)..Len(ps) : KeyOfPiece(ps[j]) # key
  IN  Slice(ps[i], 2, Len(ps[i]))

\* all orderings of the elements of a set of indices
RECURSIVE Orderings(_)
Orderings(S) ==
  IF S = {} THEN {<<>>}
  ELSE UNION {{<<s>> \o p : p \in Orderings(S \ {s})} : s \in S}

\* the orderings of 1..n that exchange two indices
Exchanges(n) ==
  {[k \in 1..n |-> IF k = i THEN j ELSE IF k = j THEN i ELSE k] : i \in 1..n, j \in 1..n}

\* every permutation of up to MaxPermuted pieces; for longer segments every
\* exchange of two pieces
Rearrangements(n) == IF n <= MaxPermuted THEN Orderings(1..n) ELSE Exchanges(n)

Rearranged(r, f) ==
  Raw(SegmentIdOf(r), [i \in 1..Len(SegmentPieces(r)) |-> SegmentPieces(r)[f[i]]])

OrderInsensitive(r, result) ==
  \A f \in Rearrangements(Len(SegmentPieces(r))) : parse_segment(Rearranged(r, f)) = result

\* a key of the recognized variant stands on more than one piece
RepeatedKey(r) ==
  /\ Recognized(r)
  /\ \E i, j \in 1..Len(SegmentPieces(r)) :
       /\ i # j
       /\ KeyOfPiece(SegmentPieces(r)[i]) = KeyOfPiece(SegmentPieces(r)[j])
       /\ KeyOfPiece(SegmentPieces(r)[i]) \in KeysOf(VariantOf(r))

\* C13 as stated: for every raw segment r and every permutation of the
\* pieces after its identifier, segments with a repeated key included,
\* parse_segment returns the same segment or the same failure as for r.
C13_OrderInsensitiveAnyPieces ==
  pc = "parsed" => OrderInsensitive(x.v, y)

\* C13 as amended: the same, for every raw segment in which no key of the
\* recognized variant stands on more than one piece.
C13_OrderInsensitive ==
  (pc = "parsed" /\ ~RepeatedKey(x.v)) => OrderInsensitive(x.v, y)

\* an Insurance segment written in another order than its key mapping and
\* holding a piece with an unknown key has been parsed into a segment
C13_Witness ==
  /\ pc = "parsed"
  /\ x.v = Raw(<<"A", "M", "0", "4">>, PutAfter(InsurancePieces, 2, <<"Z", "Z", "9">>))
  /\ y.t = "segment"
  /\ y.v["first_name"] = PyStr(<<"J", "O", "H", "N">>)
  /\ parse_segment(Raw(<<"A", "M", "0", "4">>, <<<<"Z", "Z", "9">>, <<"A", "7", "D", "O", "E">>, <<"A", "6", "C", "A", "R", "D", "1">>, <<"C", "3", "0", "0", "1">>, <<"C", "1", "J", "O", "H", "N">>,
                                  <<"C", "2", "I", "C", "N", "1">>>>)) = y

\* C14: parse_segment gives the same result for a raw segment and for that
\* segment with its surrounding whitespace removed.
C14_TrimInvariance ==
  pc = "done" => z = y

\* the keys whose attribute may be left out: Pricing E3, Claim DT, Claim EB
OptionalKeys == {<<"E", "3">>, <<"D", "T">>, <<"E", "B">>}
RequiredKeys(class) == KeysOf(class) \ OptionalKeys

MissingRequired(r) ==
  \E key \in RequiredKeys(VariantOf(r)) : ~HasPiece(r, key)

\* C15: parse_segment on a recognized segment fails with
\* MissingRequiredField and returns no segment whenever a required
\* attribute has no piece with its key; a missing optional attribute (E3,
\* DT, EB) does not fail the parse and is stored as absent.
C15_RequiredAttributes ==
  (pc # "start" /\ Recognized(x.v)) =>
    /\ MissingRequired(x.v) => (y.t = "err" /\ "MissingRequiredField" \in y.v)
    /\ (~MissingRequired(x.v) /\ y.t = "err") => "MissingRequiredField" \notin y.v
    /\ \A key \in KeysOf(VariantOf(x.v)) \cap OptionalKeys :
         (~HasPiece(x.v, key) /\ y.t = "segment")
           => y.v[AttributeOf(VariantOf(x.v), key)] = PyNone

\* a Claim segment without its D2 piece has been refused
C15_Witness ==
  /\ pc = "parsed"
  /\ SegmentIdOf(x.v) = <<"A", "M", "0", "7">>
  /\ ~HasPiece(x.v, <<"D", "2">>)
  /\ HasPiece(x.v, <<"E", "M">>)
  /\ y = [t |-> "err", v |-> {"MissingRequiredField"}]

\* ------------------------------------------------ segment: repeated keys
RECURSIVE PiecesAt(_, _, _)
PiecesAt(ps, S, i) ==
  IF i > Len(ps) THEN <<>>
  ELSE (IF i \in S THEN <<ps[i]>> ELSE <<>>) \o PiecesAt(ps, S, i + 1)

\* r without the pieces whose known key stands again on a later piece
LastPiecesOnly(r) ==
  LET ps == SegmentPieces(r)
      kept == {i \in 1..Len(ps) :
                 \/ KeyOfPiece(ps[i]) \notin KeysOf(VariantOf(r))
                 \/ \A j \in (i + 1)..Len(ps) : KeyOfPiece(ps[j]) # KeyOfPiece(ps[i])}
  IN  Raw(SegmentIdOf(r), PiecesAt(ps, kept, 1))

\* what the attribute of key holds for the text after the key: the date
\* for Patient C4, the zero-filled code for a one-digit Claim EM, and the
\* text itself otherwise
StoredFor(class, key, text) ==
  IF class.name = "PatientSegment" /\ key = <<"C", "4">> THEN strptime(text)
  ELSE IF class.name = "ClaimSegment" /\ key = <<"E", "M">> /\ Len(text) = 1 /\ text[1] \in Digits
    THEN PyStr(<<"0">> \o text)
  ELSE PyStr(text)

\* C30, as stated: a recognized segment with a known key on more than one
\* piece is parsed without failure, and every attribute with a piece
\* holds exactly the characters after the key of the last piece with its
\* key.
C30_RepeatedKeysLiteral ==
  (pc # "start" /\ RepeatedKey(x.v)) =>
    /\ y.t = "segment"
    /\ \A key \in KeysOf(VariantOf(x.v)) :
         HasPiece(x.v, key) =>
           y.v[AttributeOf(VariantOf(x.v), key)] = PyStr(LastValue(x.v, key))

\* C30: for a recognized segment with a known key on more than one piece,
\* parse_segment returns what it returns for the segment without the
\* earlier pieces of each repeated key, so the repetition itself never
\* fails the parse; when a segment is returned, every attribute with a
\* piece holds the characters after the key of the last piece with its
\* key, a one-digit EM being zero-filled and C4 being stored as its date.
C30_RepeatedKeys ==
  (pc # "start" /\ RepeatedKey(x.v)) =>
    /\ y = parse_segment(LastPiecesOnly(x.v))
    /\ ~RepeatedKey(LastPiecesOnly(x.v))
    /\ y.t = "segment" =>
         \A key \in KeysOf(VariantOf(x.v)) :
           HasPiece(x.v, key) =>
             y.v[AttributeOf(VariantOf(x.v), key)]
               = StoredFor(VariantOf(x.v), key, LastValue(x.v, key))

\* an Insurance segment with a second first name ahead of its five pieces
\* has been parsed, and the later first name is the one stored
C30_Witness ==
  /\ pc = "parsed"
  /\ x.v = Raw(<<"A", "M", "0", "4">>, <<<<"C", "1", "J", "A", "N", "E">>>> \o InsurancePieces)
  /\ RepeatedKey(x.v)
  /\ y.t = "segment"
  /\ y.v["first_name"] = PyStr(<<"J", "O", "H", "N">>)

\* ------------------------------------------------ segment enumerations
\* the code points the wire may carry for each enumerated key
GenderCodes == {<<"0">>, <<"1">>, <<"2">>}
QualifierCodes == {<<"0", "1">>, <<"0", "2">>, <<"0", "3">>}
ProductCodes ==
  {TwoDigits(n) : n \in {0, 1, 2, 3, 4, 6, 7, 8, 9, 10, 11, 12, 15, 28, 29, 30, 31, 32, 33, 34,
                          36, 42, 43, 44, 45, 99}}
PackagingCodes == {<<"0">>, <<"1">>, <<"2">>, <<"3">>, <<"4">>, <<"5">>, <<"6">>, <<"7">>, <<"8">>}

\* the single digits that zero-fill to a qualifier code
QualifierDigits == {<<"1">>, <<"2">>, <<"3">>}

\* an enumerated key of r's variant carries a value outside Codes
OutsideCodes(r, segment_id, key, Codes) ==
  /\ SegmentIdOf(r) = segment_id
  /\ HasPiece(r, key)
  /\ LastValue(r, key) \notin Codes

Refused(result) == result.t = "err" /\ "UnknownCode" \in result.v

\* C20 as stated: parse_segment fails with UnknownCode whenever the wire
\* value of C5, EM, E1 or DT is not literally a code point of its
\* enumeration.
C20_ClosedEnumerationsLiteral ==
  (pc # "start" /\ (\/ OutsideCodes(x.v, <<"A", "M", "0", "1">>, <<"C", "5">>, GenderCodes)
                    \/ OutsideCodes(x.v, <<"A", "M", "0", "7">>, <<"E", "M">>, QualifierCodes)
                    \/ OutsideCodes(x.v, <<"A", "M", "0", "7">>, <<"E", "1">>, ProductCodes)
                    \/ OutsideCodes(x.v, <<"A", "M", "0", "7">>, <<"D", "T">>, PackagingCodes)))
    => Refused(y)

\* C20 as amended: the same, except that EM also takes the single digits 1,
\* 2, 3, which are stored zero-filled as 01, 02, 03; every stored
\* enumerated value is a code point.
C20_ClosedEnumerations ==
  pc # "start" =>
    /\ (\/ OutsideCodes(x.v, <<"A", "M", "0", "1">>, <<"C", "5">>, GenderCodes)
        \/ OutsideCodes(x.v, <<"A", "M", "0", "7">>, <<"E", "M">>, QualifierCodes \cup QualifierDigits)
        \/ OutsideCodes(x.v, <<"A", "M", "0", "7">>, <<"E", "1">>, ProductCodes)
        \/ OutsideCodes(x.v, <<"A", "M", "0", "7">>, <<"D", "T">>, PackagingCodes)) => Refused(y)
    /\ (y.t = "segment" /\ y.cls = "ClaimSegment") =>
         /\ y.v["prescription_service_reference_number_qualifier"].v \in QualifierCodes
         /\ LastValue(x.v, <<"E", "M">>) \in
              {y.v["prescription_service_reference_number_qualifier"].v,
               Tail(y.v["prescription_service_reference_number_qualifier"].v)}
         /\ y.v["product_service_id_qualifier"].v \in ProductCodes
         /\ y.v["special_packaging_indicator"] \in {PyNone} \cup {PyStr(c) : c \in PackagingCodes}
    /\ (y.t = "segment" /\ y.cls = "PatientSegment") =>
         y.v["patient_gender"].v \in GenderCodes

\* a Claim segment whose EM is 04 has been refused with UnknownCode alone
C20_Witness ==
  /\ pc = "parsed"
  /\ SegmentIdOf(x.v) = <<"A", "M", "0", "7">>
  /\ HasPiece(x.v, <<"E", "M">>)
  /\ LastValue(x.v, <<"E", "M">>) = <<"0", "4">>
  /\ y = [t |-> "err", v |-> {"UnknownCode"}]

\* ------------------------------------------ claim: forward compatibility
\* a recognized raw segment without the pieces whose key its variant does
\* not know
KnownOnly(r) ==
  LET keys == KeysOf(VariantOf(r))
      Known(piece) == KeyOfPiece(piece) \in keys
  IN  Raw(SegmentIdOf(r), SelectSeq(SegmentPieces(r), Known))

\* the wire text without the segments of unknown identifier and without
\* the pieces of unknown key
RECURSIVE KnownSegments(_)
KnownSegments(raw_segments) ==
  IF raw_segments = <<>> THEN <<>>
  ELSE LET r == Strip(Head(raw_segments))
       IN  (IF Recognized(r) THEN <<KnownOnly(r)>> ELSE <<>>)
             \o KnownSegments(Tail(raw_segments))

KnownWire(s) ==
  Join(SEGMENT_SEPARATOR, <<Head(Split(s, SEGMENT_SEPARATOR))>> \o KnownSegments(RawSegments(s)))

HoldsUnknownPiece(s) ==
  \E i \in 1..Len(RawSegments(s)) :
    /\ Recognized(Strip(RawSegments(s)[i]))
    /\ KnownOnly(Strip(RawSegments(s)[i])) # Strip(RawSegments(s)[i])

HoldsUnknownSegment(s) ==
  \E i \in 1..Len(RawSegments(s)) : ~Recognized(Strip(RawSegments(s)[i]))

\* every raw segment parses without failure, and each of the four
\* required variants is among them
HoldsRequiredSegments(s) ==
  /\ \A i \in 1..Len(RawSegments(s)) : parse_segment(Strip(RawSegments(s)[i])).t # "err"
  /\ \A id \in {RequiredIds[k] : k \in 1..4} :
       \E i \in 1..Len(RawSegments(s)) : SegmentIdOf(Strip(RawSegments(s)[i])) = id

\* C12: parse_segment ignores the pieces whose first two characters are not
\* a key of the recognized variant and returns no segment for an unknown
\* identifier; a claim holding such pieces or segments next to its four
\* required segments still parses, into the claim of the text without them.
C12_ForwardCompatibility ==
  (pc # "start" /\ x.t = "str") =>
    /\ \A i \in 1..Len(RawSegments(x.v)) :
         LET r == Strip(RawSegments(x.v)[i])
         IN  IF Recognized(r) THEN parse_segment(r) = parse_segment(KnownOnly(r))
             ELSE parse_segment(r) = PyNone
    /\ y = ClaimModel_from_file(KnownWire(x.v))
    /\ (NCPDPClaimHeader_parse(Head(Split(x.v, SEGMENT_SEPARATOR))).t = "header"
          /\ HoldsRequiredSegments(x.v)) => y.t = "claim"

\* a wire text with a piece of unknown key and a segment of unknown
\* identifier has been parsed into a claim
C12_Witness ==
  /\ pc = "parsed"
  /\ x.t = "str"
  /\ HoldsUnknownPiece(x.v)
  /\ HoldsUnknownSegment(x.v)
  /\ y.t = "claim"
  /\ y.v["insurance"].v["last_name"] = PyStr(<<"D", "O", "E">>)

\* -------------------------------------------------- assembly: the machine
\* x is a header and a list of parsed segments, y what
\* ClaimModel.from_segments returns for them, z what ClaimModel.serialize
\* returns for y.

InsuranceOf(first_name) ==
  Segment(InsuranceSegment,
          [first_name |-> PyStr(first_name), last_name |-> PyStr(<<"D", "O", "E">>),
           person_code |-> PyStr(<<"0", "0", "1">>), cardholder_id |-> PyStr(<<"C", "A", "R", "D", "1">>),
           internal_control_number |-> PyStr(<<"I", "C", "N", "1">>)])

ClinicalOf(coverage) ==
  Segment(ClinicalSegment,
          [other_payer_coverage_type |-> PyStr(coverage),
           other_payer_id_qualifier |-> PyStr(<<"0", "1">>)])

\* the segments a list is drawn from: one of each variant in canonical
\* order, then a second Insurance and a second Clinical segment
SegmentPool ==
  <<InsuranceOf(<<"J", "O", "H", "N">>),
    Segment(PatientSegment,
            [dob |-> PyDatetime(1980, 1, 15, 0), patient_gender |-> PyStr(<<"1">>),
             last_name |-> PyStr(<<"S", "M", "I", "T", "H">>), first_name |-> PyStr(<<"J", "A", "N", "E">>),
             patient_zip |-> PyStr(<<"1", "2", "3", "4", "5">>)]),
    Segment(ClaimSegment,
            WithGiven(ClaimRequired, [special_packaging_indicator |-> PyStr(<<"1">>),
                                      other_coverage_code |-> PyStr(<<"2">>)])),
    Segment(PricingSegment,
            [ingredient_cost_submitted |-> PyStr(<<"1", "0", "{">>),
             dispensing_fee_submitted |-> PyStr(<<"5", "A">>),
             professional_service_fee_submitted |-> PyStr(<<"0", "}">>),
             gross_amount_due |-> PyStr(<<"1", "5", "A">>),
             other_amount_claimed |-> PyStr(<<"0", "{">>)]),
    ModelOptional["prescriber"],
    ModelOptional["pharmacy_provider"],
    ClinicalOf(<<"1">>),
    InsuranceOf(<<"J", "A", "N", "E">>),
    ClinicalOf(<<"2">>)>>

\* the elements of list at the indices of S, in the order of list
RECURSIVE Pick(_, _)
Pick(list, S) ==
  IF list = <<>> THEN <<>>
  ELSE (IF Len(list) \in S THEN Pick(SubSeq(list, 1, Len(list) - 1), S) \o <<list[Len(list)]>>
        ELSE Pick(SubSeq(list, 1, Len(list) - 1), S))

Reversed(list) == [i \in 1..Len(list) |-> list[Len(list) + 1 - i]]
Rotated(list) == IF list = <<>> THEN <<>> ELSE Tail(list) \o <<Head(list)>>

\* every choice of pool segments, in pool order, reversed, and rotated
SegmentLists ==
  UNION {{Pick(SegmentPool, S), Reversed(Pick(SegmentPool, S)), Rotated(Pick(SegmentPool, S))} :
           S \in SUBSET (1..Len(SegmentPool))}

AssembleInputs ==
  {[t |-> "segments", header |-> h, v |-> list] :
     h \in ModelHeaders, list \in SegmentLists}
    \cup {[t |-> "segments", header |-> PyNone, v |-> Pick(SegmentPool, S)] :
            S \in {1..4, 1..7, {}}}

InitAssemble ==
  /\ pc = "start"
  /\ x \in AssembleInputs
  /\ y = Unset
  /\ z = Unset

\* ClaimModel.from_segments(header, segments)
Assemble ==
  /\ pc = "start"
  /\ y' = ClaimModel_from_segments(x.header, x.v)
  /\ pc' = "assembled"
  /\ UNCHANGED <<x, z>>

\* serialize is called on the assembled claim
AssembleSerialize ==
  /\ pc = "assembled"
  /\ y.t = "claim"
  /\ z' = ClaimModel_serialize(y.v)
  /\ pc' = "done"
  /\ UNCHANGED <<x, y>>

NextAssemble == Assemble \/ AssembleSerialize

SpecAssemble == InitAssemble /\ [][NextAssemble]_vars

\* ------------------------------------------------ assembly: properties
CanonicalNames ==
  <<"insurance", "patient", "claim", "pricing", "prescriber", "pharmacy_provider", "clinical">>

ClassesOf(segments) == {segments[i].cls : i \in 1..Len(segments)}

\* the serialized segments of claim m that are present, in the order of
\* names, the Patient text followed by the group-separator
RECURSIVE CanonicalTexts(_, _)
CanonicalTexts(m, names) ==
  IF names = <<>> THEN <<>>
  ELSE (IF m[Head(names)] = PyNone THEN <<>>
        ELSE IF Head(names) = "patient"
          THEN <<Segment_serialize(m[Head(names)]) \o <<GROUP_SEPARATOR>>>>
        ELSE <<Segment_serialize(m[Head(names)])>>)
         \o CanonicalTexts(m, Tail(names))

\* C16: serialize emits the header and then the present segments in the
\* order Insurance, Patient, Claim, Pricing, Prescriber, PharmacyProvider,
\* Clinical, joined by the segment-separator, for every subset of optional
\* segments and every order of the list given to from_segments; an absent
\* optional segment adds neither a segment nor a separator.
C16_CanonicalSegmentOrder ==
  (pc = "done" /\ y.t = "claim") =>
    /\ z.t = "str"
    /\ z.v = Join(SEGMENT_SEPARATOR,
                  <<NCPDPClaimHeader_serialize(y.v["header"].v).v>>
                    \o CanonicalTexts(y.v, CanonicalNames))
    /\ Len(Split(z.v, SEGMENT_SEPARATOR)) = 1 + Cardinality(ClassesOf(x.v))
    /\ \A i \in 1..Len(ClaimFields) :
         (y.v[ClaimFields[i].name] = PyNone) <=> (ClaimFields[i].cls \notin ClassesOf(x.v))

\* a list that starts with the Clinical segment and holds no Prescriber
\* has been assembled and serialized
C16_Witness ==
  /\ pc = "done"
  /\ x.v # <<>>
  /\ Head(x.v).cls = "ClinicalSegment"
  /\ ClassesOf(x.v) = {"InsuranceSegment", "PatientSegment", "ClaimSegment", "PricingSegment",
                       "PharmacyProviderSegment", "ClinicalSegment"}
  /\ [i \in 1..6 |-> SubSeq(Split(z.v, SEGMENT_SEPARATOR)[i + 1], 2, 5)]
       = <<<<"A", "M", "0", "4">>, <<"A", "M", "0", "1">>, <<"A", "M", "0", "7">>, <<"A", "M", "1", "1">>, <<"A", "M", "0", "6">>, <<"A", "M", "0", "8">>>>

GroupSeparators(s) == {k \in 1..Len(s) : s[k] = GROUP_SEPARATOR}

\* C17: the serialized claim holds exactly one group-separator, right after
\* the last character of the Patient segment and right before the
\* segment-separator that precedes the Claim segment.
C17_GroupSeparatorPlacement ==
  (pc = "done" /\ y.t = "claim") =>
    /\ z.t = "str"
    /\ Cardinality(GroupSeparators(z.v)) = 1
    /\ \A k \in GroupSeparators(z.v) :
         LET patient == Segment_serialize(y.v["patient"])
         IN  /\ k > Len(patient)
             /\ SubSeq(z.v, k - Len(patient), k - 1) = patient
             /\ k + 6 <= Len(z.v)
             /\ z.v[k + 1] = SEGMENT_SEPARATOR
             /\ SubSeq(z.v, k + 2, k + 6) = <<FIELD_SEPARATOR>> \o <<"A", "M", "0", "7">>

\* a claim with all seven segments has been serialized with the
\* group-separator after the Patient zip code
C17_Witness ==
  /\ pc = "done"
  /\ Cardinality(ClassesOf(x.v)) = 7
  /\ \E k \in GroupSeparators(z.v) : SubSeq(z.v, k - 7, k - 1) = <<"C", "P", "1", "2", "3", "4", "5">>

\* C18: from_segments fails with DuplicateSegment and returns no claim
\* whenever the list holds two or more segments of the same variant.
C18_DuplicateSegmentsRefused ==
  (pc # "start" /\ Cardinality(ClassesOf(x.v)) < Len(x.v))
    => (y.t = "err" /\ "DuplicateSegment" \in y.v)

RequiredClasses == {"InsuranceSegment", "PatientSegment", "ClaimSegment", "PricingSegment"}

IsSegmentOf(value, cls) == value.t = "segment" /\ value.cls = cls

\* C19: from_segments fails with MissingRequiredSegment and returns no
\* claim whenever Insurance, Patient, Claim or Pricing is missing from the
\* list; every claim it returns holds a header, those four segments, and
\* each of Prescriber, PharmacyProvider, Clinical at most once.
C19_RequiredSegments ==
  pc # "start" =>
    /\ ~(RequiredClasses \subseteq ClassesOf(x.v))
         => (y.t = "err" /\ "MissingRequiredSegment" \in y.v)
    /\ y.t \in {"err", "claim"}
    /\ y.t = "claim" =>
         /\ DOMAIN y.v = {"header", "insurance", "patient", "claim", "pricing", "prescriber",
                          "pharmacy_provider", "clinical"}
         /\ y.v["header"].t = "header"
         /\ IsSegmentOf(y.v["insurance"], "InsuranceSegment")
         /\ IsSegmentOf(y.v["patient"], "PatientSegment")
         /\ IsSegmentOf(y.v["claim"], "ClaimSegment")
         /\ IsSegmentOf(y.v["pricing"], "PricingSegment")
         /\ y.v["prescriber"] = PyNone \/ IsSegmentOf(y.v["prescriber"], "PrescriberSegment")
         /\ y.v["pharmacy_provider"] = PyNone
              \/ IsSegmentOf(y.v["pharmacy_provider"], "PharmacyProviderSegment")
         /\ y.v["clinical"] = PyNone \/ IsSegmentOf(y.v["clinical"], "ClinicalSegment")

\* a list with every segment but Pricing has been refused
C19_Witness ==
  /\ pc = "assembled"
  /\ x.header.t = "header"
  /\ ClassesOf(x.v) = {"InsuranceSegment", "PatientSegment", "ClaimSegment",
                       "PrescriberSegment", "PharmacyProviderSegment", "ClinicalSegment"}
  /\ y = [t |-> "err", v |-> {"MissingRequiredSegment"}]

\* --------------------------------------------- segment codec: the machine
\* x is a raw segment text or a segment built by its constructor, y what
\* the first call (parse_segment or serialize) returns for x, z what the
\* other call returns for y.

\* the five Insurance pieces in every order, and in the written order with
\* an empty, a padded and a lower-case last name
InsuranceOrderings ==
  {Raw(<<"A", "M", "0", "4">>, [i \in 1..5 |-> InsurancePieces[f[i]]]) : f \in Orderings(1..5)}
    \cup {Raw(<<"A", "M", "0", "4">>, <<<<"A", "7">> \o last, <<"C", "3", "0", "0", "1">>, <<"C", "1", "J", "O", "H", "N">>, <<"A", "6", "C", "A", "R", "D", "1">>, <<"C", "2", "I", "C", "N", "1">>>>) :
            last \in {<<>>, <<"D", "O", "E", " ">>, <<" ", "d", "o", "e">>, <<"A", "7">>}}

SegmentModels ==
  ModelInsurance \cup ModelPatient \cup ModelClaim \cup ModelPricing
    \cup {ModelOptional[n] : n \in OptionalNames}

CodecInputs ==
  {PyStr(r) : r \in InsuranceOrderings \cup SegmentBodies} \cup SegmentModels

InitCodec ==
  /\ pc = "start"
  /\ x \in CodecInputs
  /\ y = Unset
  /\ z = Unset

\* parse_segment on the raw text at hand; serialized text is trimmed first,
\* as from_file does
CodecParse ==
  /\ pc \in {"start", "serialized"}
  /\ (IF pc = "start" THEN x ELSE y).t = "str"
  /\ IF pc = "start"
       THEN /\ y' = parse_segment(x.v)
            /\ pc' = "parsed"
            /\ z' = z
       ELSE /\ z' = parse_segment(Strip(y.v))
            /\ pc' = "done"
            /\ y' = y
  /\ x' = x

\* serialize is called on the segment at hand
CodecSerialize ==
  /\ pc \in {"start", "parsed"}
  /\ (IF pc = "start" THEN x ELSE y).t = "segment"
  /\ IF pc = "start"
       THEN /\ y' = PyStr(Segment_serialize(x))
            /\ pc' = "serialized"
            /\ z' = z
       ELSE /\ z' = PyStr(Segment_serialize(y))
            /\ pc' = "done"
            /\ y' = y
  /\ x' = x

NextCodec == CodecParse \/ CodecSerialize

SpecCodec == InitCodec /\ [][NextCodec]_vars


\* ------------------------------------------ segment codec: the properties
\* the attribute order of the data-model table, by class
TableOrder(name) ==
  CASE name = "InsuranceSegment" -> <<<<"C", "1">>, <<"C", "2">>, <<"C", "3">>, <<"A", "6">>, <<"A", "7">>>>
    [] name = "PatientSegment" -> <<<<"C", "4">>, <<"C", "5">>, <<"C", "A">>, <<"C", "B">>, <<"C", "P">>>>
    [] name = "ClaimSegment" ->
         <<<<"E", "M">>, <<"D", "2">>, <<"E", "1">>, <<"D", "7">>, <<"S", "E">>, <<"E", "7">>, <<"D", "3">>, <<"D", "5">>, <<"D", "6">>, <<"D", "8">>,
           <<"D", "E">>, <<"D", "F">>, <<"D", "J">>, <<"D", "T">>, <<"E", "B">>>>
    [] name = "PricingSegment" -> <<<<"D", "9">>, <<"D", "C">>, <<"E", "3">>, <<"D", "Q">>, <<"D", "U">>>>
    [] name = "PrescriberSegment" -> <<<<"E", "Z">>, <<"D", "B">>>>
    [] name = "PharmacyProviderSegment" -> <<<<"D", "Z">>>>
    [] name = "ClinicalSegment" -> <<<<"7", "E">>, <<"E", "5">>>>

\* the same, with the Insurance control number ahead of the first name
WrittenOrder(name) ==
  IF name = "InsuranceSegment" THEN <<<<"C", "2">>, <<"C", "1">>, <<"C", "3">>, <<"A", "6">>, <<"A", "7">>>>
  ELSE TableOrder(name)

\* text is a field separator, the four-character identifier, and one piece
\* per key of order, each the key followed by the attribute as written
WireForm(segment, text, order) ==
  LET class == ClassNamed(segment.cls)
      parts == Split(text, FIELD_SEPARATOR)
  IN  /\ Len(parts) = Len(order) + 2
      /\ parts[1] = <<>>
      /\ parts[2] = class.segment_id
      /\ Len(parts[2]) = 4
      /\ \A i \in 1..Len(order) :
           parts[i + 2] = order[i] \o FormatValue(segment.v[AttributeOf(class, order[i])])

\* every serialize call of the machine: its segment and its result
SerializedCalls ==
  (IF pc \in {"serialized", "done"} /\ x.t = "segment" THEN {<<x, y.v>>} ELSE {})
    \cup (IF pc = "done" /\ y.t = "segment" THEN {<<y, z.v>>} ELSE {})

\* C21, as stated: serialize writes a field separator, the identifier and
\* one key||value piece per attribute in the order of the data-model
\* table, Insurance being C1,C2,C3,A6,A7.
C21_SegmentWireFormTableOrder ==
  \A call \in SerializedCalls : WireForm(call[1], call[2], TableOrder(call[1].cls))

\* C21: serialize writes a field separator, the four-character identifier
\* and one key||value piece per attribute joined by field separators, in
\* the order of the data-model table for every variant but Insurance,
\* which is written C2,C1,C3,A6,A7; an absent attribute is written as the
\* text None.
C21_SegmentWireForm ==
  \A call \in SerializedCalls : WireForm(call[1], call[2], WrittenOrder(call[1].cls))

C21_Witness ==
  /\ pc = "serialized"
  /\ x.cls = "InsuranceSegment"
  /\ Slice(y.v, 0, 8) = <<FIELD_SEPARATOR>> \o <<"A", "M", "0", "4">> \o <<FIELD_SEPARATOR>> \o <<"C", "2">>

\* a raw Insurance segment carrying each of its five keys on one piece
FiveInsuranceKeys(r) ==
  /\ SegmentIdOf(r) = <<"A", "M", "0", "4">>
  /\ Len(SegmentPieces(r)) = 5
  /\ {KeyOfPiece(SegmentPieces(r)[i]) : i \in 1..5} = {<<"C", "1">>, <<"C", "2">>, <<"C", "3">>, <<"A", "6">>, <<"A", "7">>}

\* C22: a raw Insurance segment with its five keys in any order parses,
\* and serializing the parsed segment gives the pieces of the input, no
\* more and no fewer, in the order C2, C1, C3, A6, A7.
C22_InsuranceReserialization ==
  (pc # "start" /\ x.t = "str" /\ FiveInsuranceKeys(x.v)) =>
    /\ y.t = "segment"
    /\ pc = "done" =>
         LET out == Split(z.v, FIELD_SEPARATOR)
         IN  /\ Len(out) = 7
             /\ {out[i] : i \in 3..7} = {SegmentPieces(x.v)[i] : i \in 1..5}
             /\ [i \in 1..5 |-> KeyOfPiece(out[i + 2])]
                  = <<<<"C", "2">>, <<"C", "1">>, <<"C", "3">>, <<"A", "6">>, <<"A", "7">>>>

C22_Witness ==
  /\ pc = "done"
  /\ x.t = "str"
  /\ FiveInsuranceKeys(x.v)
  /\ KeyOfPiece(SegmentPieces(x.v)[1]) = <<"A", "7">>
  /\ z.t = "str"

\* the attributes the constructor of a segment left absent
AbsentAttributes(segment) ==
  {a \in {"professional_service_fee_submitted", "special_packaging_indicator",
          "other_coverage_code"} :
     a \in DOMAIN segment.v /\ segment.v[a].t = "none"}

\* C29: a Pricing segment without a professional service fee, or a Claim
\* segment without a packaging indicator or a coverage code, is
\* serialized to a text that parse_segment, after trimming, turns into a
\* segment where the attribute is absent again.
C29_AbsentSurvives ==
  (pc = "done" /\ x.t = "segment" /\ AbsentAttributes(x) # {}) =>
    /\ z.t = "segment"
    /\ \A a \in AbsentAttributes(x) : z.v[a].t = "none"


\* ------------------------------------------------------ pad: the machine
\* x is a position of NCPDPFormat with the value handed to its pad, y what
\* pad returns.

\* how many characters past the width of its field a value may have
MaxPadExtra == 1

PadValues(length) ==
  {PyNone}
    \cup {PyStr(Repeat(c, n)) : c \in {"1", "A", " "}, n \in 0..(length + MaxPadExtra)}
    \cup {PyStr(<<" ", "1">>), PyStr(<<"1", " ">>)}

PadInputs ==
  UNION {{[t |-> "call", v |-> [pos |-> HeaderPositions[i], value |-> value]] :
            value \in PadValues(HeaderPositions[i].length)} :
           i \in 1..Len(HeaderPositions)}

InitPad ==
  /\ pc = "start"
  /\ x \in PadInputs
  /\ y = Unset
  /\ z = Unset

Pad ==
  /\ pc = "start"
  /\ y' = pad(x.v.pos, x.v.value)
  /\ pc' = "done"
  /\ UNCHANGED <<x, z>>

NextPad == Pad

SpecPad == InitPad /\ [][NextPad]_vars

\* C24: pad fails with the field-length error, and returns nothing, when
\* the value is longer than the field; otherwise it returns a text of
\* exactly the field's length, the unchanged value with spaces on one
\* side of it only, an absent value counting as the empty text.
C24_PadPrimitive ==
  pc = "done" =>
    LET length == x.v.pos.length
        val == IF x.v.value.t = "none" THEN <<>> ELSE x.v.value.v
    IN  IF Len(val) > length THEN y = Raise("InvalidFieldLength")
        ELSE /\ y.t = "str"
             /\ Len(y.v) = length
             /\ \/ y.v = val \o Spaces(length - Len(val))
                \/ y.v = Spaces(length - Len(val)) \o val

\* pad has refused a value one character longer than its field
C24_Witness ==
  /\ pc = "done"
  /\ x.v.value.t = "str"
  /\ Len(x.v.value.v) = x.v.pos.length + 1
  /\ y = Raise("InvalidFieldLength")

====
